---- MODULE Spec2Model ----
(***************************************************************************)
(* PV Water Heating Manager: the per-tick hysteresis controller            *)
(* (boiler_logic), the night pre-heat scheduler (night_pre_heating,        *)
(* _plan_start_night_pre_heating, _start_night_pre_heating,                *)
(* _end_pre_heating), the feature switch and the boiler actuator.          *)
(*                                                                         *)
(* Time is counted in hundredths of a minute (the resolution of            *)
(* round(x, 2) on minute values).  Energies are hundredths of a kWh.       *)
(* A coroutine is a task record; one step of the model runs a coroutine    *)
(* from one suspension point (history fetch, blocking service call) to     *)
(* the next, so everything between two awaits that really suspend is       *)
(* atomic, as on the single-threaded event loop.                           *)
(***************************************************************************)
EXTENDS Integers, Sequences, FiniteSets, TLC

\* ------------------------------------------------------------ bounds
\* last modelled instant, in hours after the start of the first modelled day
MaxHours == 30
\* number of manager.run() tasks that may be in flight together
MaxTicks == 1
\* number of scheduler callbacks that may be in flight together
MaxSched == 1
\* minutes between two instants at which the environment may act
StepMinutes == 360
MaxEvents == 3

\* ------------------------------------------------------------ program constants
\* round(Pt_time, 2): minute values carry two decimals
Resolution == 100
\* _planned_to_past: guard band, minutes
GuardMinutes == 5
\* _start_night_pre_heating: 3C reserve
TempReserve == 3
\* _start_night_pre_heating: lead time above which the start is rescheduled
TooEarlyMinutes == 60
\* _plan_start_night_pre_heating: needed time when the water is already hot
CheckMinutes == 120
\* _plan_start_night_pre_heating: margin added to the heating duration
MarginMinutes == 60
\* night_pre_heating: reference low temperature
water_min_temp == 1
\* _calculate_battery_energy: default battery_to_charge
battery_to_charge == 80

Day == 24 * 60 * Resolution
Minute == Resolution

\* ------------------------------------------------------------ configuration
\* self._entry.data: the values the config flow stored (its defaults where it
\* has them), constant for the session
entry_data ==
    [ boiler_power       |-> 2000,
      boiler_volume      |-> 150,
      boiler_min_temp    |-> 30,
      battery_capacity   |-> 4800,
      battery_soc_top    |-> 65,
      battery_soc_bottom |-> 60,
      temp_variable      |-> 20,
      grid_threshold     |-> 150 ]

\* a value no sensor or history delivers: Python's None
None == 0 - 1

\* ------------------------------------------------------------ pure functions
\* round(n / d, 0) for n >= 0, d > 0, ties to even as Python's round
RoundDiv(n, d) ==
    LET q == n \div d
        r == n % d
    IN  IF 2 * r < d THEN q
        ELSE IF 2 * r > d THEN q + 1
        ELSE IF q % 2 = 0 THEN q ELSE q + 1

Min2(a, b) == IF a <= b THEN a ELSE b
Max2(a, b) == IF a >= b THEN a ELSE b

\* time of day and midnight of the day of an instant
TimeOf(t) == t % Day
DateOf(t) == t - (t % Day)
\* datetime.combine(date.today(), time_of_day)
Combine(now_, time_of_day) == DateOf(now_) + time_of_day
\* hour and minute of a time of day, seconds dropped
HourMinute(time_of_day) == time_of_day - (time_of_day % Minute)

\* Python's "not x" for an int or None
Falsy(x) == x = 0 \/ x = None
\* _calculate_boiler_heat with the specific heat of its docstring, 4.2
calculate_boiler_heat_docstring(boiler_power, boiler_volume, water_temp, temp_to_heat) ==
    IF Falsy(boiler_volume) \/ Falsy(boiler_power) THEN <<0, 0>>
    ELSE IF water_temp >= temp_to_heat THEN <<0, 0>>
    ELSE << RoundDiv(4200 * boiler_volume * (temp_to_heat - water_temp), 36000),
            RoundDiv(42000 * boiler_volume * (temp_to_heat - water_temp),
                     6 * boiler_power) >>
\* _calculate_boiler_heat with the test of the temperatures left out
calculate_boiler_heat_any_delta(boiler_power, boiler_volume, water_temp, temp_to_heat) ==
    IF Falsy(boiler_volume) \/ Falsy(boiler_power) THEN <<0, 0>>
    ELSE << RoundDiv(4186 * boiler_volume * (temp_to_heat - water_temp), 36000),
            RoundDiv(41860 * boiler_volume * (temp_to_heat - water_temp),
                     6 * boiler_power) >>
\* what _calculate_boiler_heat raises: comparing or subtracting a missing
\* temperature is a TypeError, met only after the volume and power test
calculate_boiler_heat_raises(boiler_power, boiler_volume, water_temp, temp_to_heat) ==
    IF Falsy(boiler_volume) \/ Falsy(boiler_power) THEN "none"
    ELSE IF water_temp = None \/ temp_to_heat = None THEN "TypeError"
    ELSE "none"
\* _calculate_boiler_heat: <<Pt (kWh, hundredths), Pt_time (minutes, hundredths)>>
calculate_boiler_heat(boiler_power, boiler_volume, water_temp, temp_to_heat) ==
    IF Falsy(boiler_volume) \/ Falsy(boiler_power) THEN <<0, 0>>
    ELSE IF water_temp >= temp_to_heat THEN <<0, 0>>
    ELSE << RoundDiv(4186 * boiler_volume * (temp_to_heat - water_temp), 36000),
            RoundDiv(41860 * boiler_volume * (temp_to_heat - water_temp),
                     6 * boiler_power) >>

\* _calculate_battery_energy with battery_to_charge at its default:
\* kWh, hundredths; battery_capacity100 is the capacity argument times 100
calculate_battery_energy(battery_capacity100, battery_soc) ==
    IF battery_capacity100 = 0 THEN 0
    ELSE IF battery_soc >= battery_to_charge THEN 0
    ELSE RoundDiv(battery_capacity100 * (battery_to_charge - battery_soc), 100000)

\* _planned_to_past at the instant now_: the candidate's time of day is not
\* after now's, or (now - candidate).seconds / 60 < 5
planned_to_past(planned_datetime, now_) ==
    \/ TimeOf(planned_datetime) <= TimeOf(now_)
    \/ (now_ - planned_datetime) % Day < GuardMinutes * Minute

\* ------------------------------------------------------------ state
VARIABLES
    now,                    \* dt_util.utcnow(), hundredths of a minute
    data,                   \* hass.data[DOMAIN]: flags and timer handles
    night_heating_switch,   \* NightHeatingSwitch._state
    settings,               \* morning time, target temperatures, manager mode
    phase,                  \* entry.data["phase"]: None until discovered
    manager_status_sensor,  \* ManagerStatusSensor.native_value
    timers,                 \* the host's pending timers
    boiler,                 \* the actuator: mode select and thermostat
    ticks,                  \* manager.run() tasks in flight
    sched,                  \* scheduler callbacks in flight
    cmd,                    \* history: the service call the last step issued
    last,                   \* history: the last step and the branch it took
    bl,                     \* history: the last boiler_logic decision
    probe,                  \* a pure function applied to drawn arguments
    mgr,                    \* the manager's control: select, MQTT and grid handlers
    forecast                \* the forecast sensors' native_value, Wh

vars == << now, data, night_heating_switch, settings, phase,
           manager_status_sensor, timers, boiler, ticks, sched, cmd, last, bl,
           probe, mgr, forecast >>

\* a handle whose timer has fired (one-shot) or was cancelled
Stale == None - 1

NoCmd == [op |-> "none", by |-> "none", temperature |-> None]

\* the part of the state a handler body reads and writes
World == [d |-> data, timers |-> timers, boiler |-> boiler, cmd |-> NoCmd]

\* ------------------------------------------------------------ timer collaborator
FreshId(ts) ==
    LET free == {i \in 1..(Cardinality(ts) + 1) : \A t \in ts : t.id # i}
    IN  CHOOSE i \in free : \A j \in free : i <= j

track(w, slot, cb, at, every) ==
    LET id == FreshId(w.timers)
    IN  [w EXCEPT !.timers = @ \cup {[id |-> id, cb |-> cb, at |-> at, every |-> every]},
                  !.d[slot] = id]

\* async_track_point_in_utc_time: one shot at the instant at
async_track_point_in_utc_time(w, slot, cb, at) == track(w, slot, cb, at, FALSE)

\* async_track_time_change(hour, minute, second=0): every day at that minute,
\* first at its next occurrence after now_
async_track_time_change(w, slot, cb, time_of_day, now_) ==
    LET today == Combine(now_, HourMinute(time_of_day))
    IN  track(w, slot, cb, IF today > now_ THEN today ELSE today + Day, TRUE)

\* hass.data[DOMAIN][slot]() under contextlib.suppress(KeyError, TypeError):
\* no-op when the slot holds None or a handle already used
cancel(w, slot) ==
    LET h == w.d[slot]
    IN  IF h = None \/ h = Stale THEN w
        ELSE [w EXCEPT !.timers = {t \in @ : t.id # h}, !.d[slot] = Stale]

\* a guard that names KeyError only
SuppressedKeyError == {"KeyError"}
\* the exceptions the "with contextlib.suppress(...)" around a call swallows
Suppressed == {"KeyError", "TypeError"}
\* what calling the value stored in a slot raises: None is not callable, a
\* handle returns quietly however often it has been called or has fired
call_handle_raises(h) == IF h = None THEN "TypeError" ELSE "none"
\* what escapes from the guarded call of the handle stored in slot
cancel_raises(w, slot) ==
    LET e == call_handle_raises(w.d[slot])
    IN  IF e \in Suppressed THEN "none" ELSE e

\* ------------------------------------------------------------ actuator
\* _boiler_power(True, temp), first service call: climate.set_temperature
boiler_power_set_temperature(w, temp, by) ==
    [w EXCEPT !.boiler.temperature = temp,
              !.cmd = [op |-> "set_temperature", by |-> by, temperature |-> temp]]

\* _boiler_power(True, temp), second service call: select_option MANUAL
boiler_power_manual(w, by) ==
    [w EXCEPT !.boiler.mode = "MANUAL",
              !.cmd = [op |-> "MANUAL", by |-> by, temperature |-> None]]

\* _boiler_power(False): select_option ANTIFREEZE
boiler_power_antifreeze(w, by) ==
    [w EXCEPT !.boiler.mode = "ANTIFREEZE",
              !.cmd = [op |-> "ANTIFREEZE", by |-> by, temperature |-> None]]

\* ------------------------------------------------------------ scheduler bodies
\* A body runs from its entry (or a resumption) to the next suspension and
\* yields [w: the state it leaves, pc: where it is suspended ("idle" when the
\* callback has returned), branch: the path it took].

\* return_to_caller forgetting "Remove the planned calculation"
return_to_caller_keep(w, from_calc) == w

\* back in _plan_start_night_pre_heating after its call of
\* _start_night_pre_heating returned: "Remove the planned calculation"
return_to_caller(w, from_calc) ==
    IF from_calc THEN [w EXCEPT !.d.night_heating_calc_planned = FALSE] ELSE w

\* _end_pre_heating up to its await of _boiler_power(False)
end_pre_heating(w, from_calc, tag) ==
    LET w1 == cancel(w, "night_heating_event")
    IN  IF w1.d.night_heating_canceled
        THEN [w |-> return_to_caller([w1 EXCEPT !.d.night_heating_canceled = FALSE],
                                     from_calc),
              pc |-> "idle", branch |-> tag \o "cleanup"]
        ELSE [w |-> boiler_power_antifreeze(w1, "sched"),
              pc |-> "end_mode", branch |-> tag \o "off"]

\* end_pre_heating_resume forgetting "Remove the planned heating"
end_pre_heating_resume_keep(w, from_calc) ==
    [w |-> return_to_caller([w EXCEPT !.d.boiler_power_on = FALSE], from_calc),
     pc |-> "idle", branch |-> "ended"]

\* _end_pre_heating after _boiler_power(False) was acknowledged
end_pre_heating_resume(w, from_calc) ==
    [w |-> return_to_caller([w EXCEPT !.d.boiler_power_on = FALSE,
                                      !.d.night_preheating = FALSE], from_calc),
     pc |-> "idle", branch |-> "ended"]

\* the four places of _start_night_pre_heating that end the cycle: "Check if
\* planned time is not in the past", then end now or at the morning time
end_now_or_at_morning(w, from_calc, st, now_, tag) ==
    IF planned_to_past(Combine(now_, st.morning_time), now_)
    THEN end_pre_heating([w EXCEPT !.d.night_heating_planned = FALSE], from_calc, tag)
    ELSE [w |-> return_to_caller(
                   [async_track_time_change(w, "night_heating_event", "end",
                                            st.morning_time, now_)
                       EXCEPT !.d.night_heating_planned = FALSE], from_calc),
          pc |-> "idle", branch |-> tag \o "end_planned"]

\* the forecast check of _start_night_pre_heating (Automatic mode): the two
\* energy terms (kWh, hundredths), the forecast read (Wh) and the comparison
forecast_check(st, in, now_) ==
    LET desired_batt_cap100 == entry_data.battery_capacity * entry_data.battery_soc_bottom
        pv_forecast == IF planned_to_past(Combine(now_, st.morning_time), now_)
                       THEN in.forecast_tomorrow ELSE in.forecast_today
        min_temp == Max2(st.heating_temp - entry_data.temp_variable,
                         entry_data.boiler_min_temp)
        delta_temp == Max2(min_temp - st.night_heating_temp, 0)
        boiler_energy_day == calculate_boiler_heat(entry_data.boiler_power,
                                 entry_data.boiler_volume, st.night_heating_temp,
                                 delta_temp)
        battery_energy == calculate_battery_energy(desired_batt_cap100, in.battery_soc)
    IN  [ boiler_energy_day |-> boiler_energy_day[1],
          battery_energy    |-> battery_energy,
          pv_forecast       |-> pv_forecast,
          cancel |-> (boiler_energy_day[1] + battery_energy) * 10 > pv_forecast ]

\* TRUE when the energy needed exceeds the forecast
forecast_insufficient(st, in, now_) == forecast_check(st, in, now_).cancel

\* _start_night_pre_heating rescheduling to the deadline itself, the needed
\* time left out of the new start time
start_night_pre_heating_late(w, from_calc, st, in, now_) ==
    LET w1 == cancel(w, "night_heating_event")
        boiler_water_temp == in.boiler_temp - TempReserve
        preheat_temp == st.night_heating_temp
        needed_time == calculate_boiler_heat(entry_data.boiler_power,
                           entry_data.boiler_volume, boiler_water_temp, preheat_temp)[2]
        time_left == (((Combine(now_, st.morning_time) - now_) % Day) \div Minute) * Minute
        time_difference == time_left - needed_time
        canceled == [w1 EXCEPT !.d.night_heating_canceled = TRUE]
    IN  IF boiler_water_temp >= preheat_temp
        THEN end_now_or_at_morning(canceled, from_calc, st, now_, "skip_")
        ELSE IF time_difference > TooEarlyMinutes * Minute
        THEN [w |-> return_to_caller(
                       async_track_time_change(w1, "night_heating_event", "start",
                                               TimeOf(now_ + time_left), now_),
                       from_calc),
              pc |-> "idle", branch |-> "rescheduled"]
        ELSE IF in.boiler_connection = "Disconnected"
        THEN end_now_or_at_morning(canceled, from_calc, st, now_, "disconnected_")
        ELSE IF st.manager_status_select = "Automatic" /\ forecast_insufficient(st, in, now_)
        THEN end_now_or_at_morning(canceled, from_calc, st, now_, "forecast_")
        ELSE [w |-> boiler_power_set_temperature(
                       [w1 EXCEPT !.d.night_preheating = TRUE], preheat_temp, "sched"),
              pc |-> "start_temp", branch |-> "heat"]

\* _start_night_pre_heating rescheduling at any lead time above zero
start_night_pre_heating_any_lead(w, from_calc, st, in, now_) ==
    LET w1 == cancel(w, "night_heating_event")
        boiler_water_temp == in.boiler_temp - TempReserve
        preheat_temp == st.night_heating_temp
        needed_time == calculate_boiler_heat(entry_data.boiler_power,
                           entry_data.boiler_volume, boiler_water_temp, preheat_temp)[2]
        time_left == (((Combine(now_, st.morning_time) - now_) % Day) \div Minute) * Minute
        time_difference == time_left - needed_time
        canceled == [w1 EXCEPT !.d.night_heating_canceled = TRUE]
    IN  IF boiler_water_temp >= preheat_temp
        THEN end_now_or_at_morning(canceled, from_calc, st, now_, "skip_")
        ELSE IF time_difference > 0
        THEN [w |-> return_to_caller(
                       async_track_time_change(w1, "night_heating_event", "start",
                                               TimeOf(now_ + time_difference), now_),
                       from_calc),
              pc |-> "idle", branch |-> "rescheduled"]
        ELSE IF in.boiler_connection = "Disconnected"
        THEN end_now_or_at_morning(canceled, from_calc, st, now_, "disconnected_")
        ELSE IF st.manager_status_select = "Automatic" /\ forecast_insufficient(st, in, now_)
        THEN end_now_or_at_morning(canceled, from_calc, st, now_, "forecast_")
        ELSE [w |-> boiler_power_set_temperature(
                       [w1 EXCEPT !.d.night_preheating = TRUE], preheat_temp, "sched"),
              pc |-> "start_temp", branch |-> "heat"]

\* _start_night_pre_heating up to its first suspension
start_night_pre_heating(w, from_calc, st, in, now_) ==
    LET w1 == cancel(w, "night_heating_event")
        boiler_water_temp == in.boiler_temp - TempReserve
        preheat_temp == st.night_heating_temp
        needed_time == calculate_boiler_heat(entry_data.boiler_power,
                           entry_data.boiler_volume, boiler_water_temp, preheat_temp)[2]
        time_left == (((Combine(now_, st.morning_time) - now_) % Day) \div Minute) * Minute
        time_difference == time_left - needed_time
        canceled == [w1 EXCEPT !.d.night_heating_canceled = TRUE]
    IN  IF boiler_water_temp >= preheat_temp
        THEN end_now_or_at_morning(canceled, from_calc, st, now_, "skip_")
        ELSE IF time_difference > TooEarlyMinutes * Minute
        THEN [w |-> return_to_caller(
                       async_track_time_change(w1, "night_heating_event", "start",
                                               TimeOf(now_ + time_difference), now_),
                       from_calc),
              pc |-> "idle", branch |-> "rescheduled"]
        ELSE IF in.boiler_connection = "Disconnected"
        THEN end_now_or_at_morning(canceled, from_calc, st, now_, "disconnected_")
        ELSE IF st.manager_status_select = "Automatic" /\ forecast_insufficient(st, in, now_)
        THEN end_now_or_at_morning(canceled, from_calc, st, now_, "forecast_")
        ELSE [w |-> boiler_power_set_temperature(
                       [w1 EXCEPT !.d.night_preheating = TRUE], preheat_temp, "sched"),
              pc |-> "start_temp", branch |-> "heat"]

\* _start_night_pre_heating resumed inside _boiler_power(True, preheat_temp)
\* after set_temperature was acknowledged
start_night_pre_heating_resume_temp(w) ==
    [w |-> boiler_power_manual(w, "sched"), pc |-> "start_mode", branch |-> "heat_mode"]

\* _start_night_pre_heating resumed after _boiler_power(True, preheat_temp)
start_night_pre_heating_resume(w, from_calc, st, now_) ==
    end_now_or_at_morning([w EXCEPT !.d.boiler_power_on = TRUE], from_calc, st, now_,
                          "heating_")

\* _plan_start_night_pre_heating adding the one-hour margin to a zero
\* heating time as well
plan_start_night_pre_heating_margin(w, st, in, now_) ==
    IF in.yesterday_boiler_temp = None
    THEN [w |-> w, pc |-> "idle", branch |-> "calc_error"]
    ELSE
    LET calc_temp == Min2(in.yesterday_boiler_temp, in.boiler_temp)
        boiler_heat == calculate_boiler_heat(entry_data.boiler_power,
                           entry_data.boiler_volume, calc_temp, st.night_heating_temp)
        needed_time == boiler_heat[2] + MarginMinutes * Minute
        planned_datetime == Combine(now_, st.morning_time) - needed_time
        planned == [w EXCEPT !.d.night_heating_planned = TRUE]
    IN  IF planned_to_past(planned_datetime, now_)
        THEN start_night_pre_heating(planned, TRUE, st, in, now_)
        ELSE [w |-> [async_track_time_change(w, "night_heating_event", "start",
                                             TimeOf(planned_datetime), now_)
                        EXCEPT !.d.night_heating_planned = TRUE,
                               !.d.night_heating_calc_planned = FALSE],
              pc |-> "idle", branch |-> "start_planned"]

\* _plan_start_night_pre_heating resumed after the history fetch
plan_start_night_pre_heating(w, st, in, now_) ==
    IF in.yesterday_boiler_temp = None
    THEN [w |-> w, pc |-> "idle", branch |-> "calc_error"]
    ELSE
    LET calc_temp == Min2(in.yesterday_boiler_temp, in.boiler_temp)
        boiler_heat == calculate_boiler_heat(entry_data.boiler_power,
                           entry_data.boiler_volume, calc_temp, st.night_heating_temp)
        needed_time == IF boiler_heat[1] = 0 THEN CheckMinutes * Minute
                       ELSE boiler_heat[2] + MarginMinutes * Minute
        planned_datetime == Combine(now_, st.morning_time) - needed_time
        planned == [w EXCEPT !.d.night_heating_planned = TRUE]
    IN  IF planned_to_past(planned_datetime, now_)
        THEN start_night_pre_heating(planned, TRUE, st, in, now_)
        ELSE [w |-> [async_track_time_change(w, "night_heating_event", "start",
                                             TimeOf(planned_datetime), now_)
                        EXCEPT !.d.night_heating_planned = TRUE,
                               !.d.night_heating_calc_planned = FALSE],
              pc |-> "idle", branch |-> "start_planned"]

\* night_pre_heating planning without looking at the feature switch
night_pre_heating_any_switch(w, switch_on, st, now_) ==
    IF \/ w.d.night_heating_planned \/ w.d.night_heating_calc_planned
       \/ w.d.night_heating_canceled \/ w.d.night_preheating
    THEN w
    ELSE
    LET max_time_to_heat == calculate_boiler_heat(entry_data.boiler_power,
                                entry_data.boiler_volume, water_min_temp,
                                st.night_heating_temp)[2]
        planned_datetime1 == Combine(now_, st.morning_time) - max_time_to_heat
        planned_time == TimeOf(planned_datetime1)
        planned_datetime2 == IF planned_to_past(planned_datetime1, now_)
                             THEN Combine(now_, planned_time) + Day
                             ELSE Combine(now_, planned_time)
    IN  [async_track_point_in_utc_time(w, "night_heating_calc_event", "calc",
                                       planned_datetime2)
            EXCEPT !.d.night_heating_calc_planned = TRUE]

\* night_pre_heating: the planning step of a tick
night_pre_heating(w, switch_on, st, now_) ==
    IF \/ w.d.night_heating_planned \/ w.d.night_heating_calc_planned
       \/ w.d.night_heating_canceled \/ w.d.night_preheating
    THEN w
    ELSE IF ~switch_on THEN w
    ELSE
    LET max_time_to_heat == calculate_boiler_heat(entry_data.boiler_power,
                                entry_data.boiler_volume, water_min_temp,
                                st.night_heating_temp)[2]
        planned_datetime1 == Combine(now_, st.morning_time) - max_time_to_heat
        planned_time == TimeOf(planned_datetime1)
        planned_datetime2 == IF planned_to_past(planned_datetime1, now_)
                             THEN Combine(now_, planned_time) + Day
                             ELSE Combine(now_, planned_time)
    IN  [async_track_point_in_utc_time(w, "night_heating_calc_event", "calc",
                                       planned_datetime2)
            EXCEPT !.d.night_heating_calc_planned = TRUE]

\* ------------------------------------------------------------ hysteresis controller
\* boiler_logic from "Check if boiler is heating" on.  "off" and "on" are the
\* _boiler_power calls, "none" a return without one, "error" the TypeError of
\* a comparison with a history value of None.

\* boiler_logic_on with the instantaneous double check left out
boiler_logic_on_single(battery_soc, grid_power, pv_power_history, critical_loads_history, critical_loads, boiler_heating) ==
    LET boiler_power == entry_data.boiler_power
    IN  IF battery_soc < entry_data.battery_soc_bottom THEN "off"
        ELSE IF grid_power > entry_data.grid_threshold THEN "off"
        ELSE IF pv_power_history = None \/ critical_loads_history = None THEN "error"
        ELSE IF boiler_heating = "off"
        THEN IF 10 * pv_power_history < 7 * (critical_loads_history + boiler_power)
             THEN "off" ELSE "none"
        ELSE IF 10 * pv_power_history < 7 * critical_loads_history
             THEN "off" ELSE "none"

\* the branch "if boiler_power_on:" (ON -> OFF)
boiler_logic_on(battery_soc, grid_power, pv_power_history, critical_loads_history, critical_loads, boiler_heating) ==
    LET boiler_power == entry_data.boiler_power
    IN  IF battery_soc < entry_data.battery_soc_bottom THEN "off"
        ELSE IF grid_power > entry_data.grid_threshold THEN "off"
        ELSE IF pv_power_history = None \/ critical_loads_history = None THEN "error"
        ELSE IF boiler_heating = "off"
        THEN IF /\ 10 * pv_power_history < 7 * (critical_loads_history + boiler_power)
                /\ 10 * pv_power_history < 7 * (critical_loads + boiler_power)
             THEN "off" ELSE "none"
        ELSE IF /\ 10 * pv_power_history < 7 * critical_loads_history
                /\ 10 * pv_power_history < 7 * critical_loads
             THEN "off" ELSE "none"

\* boiler_logic_off starting at the bottom threshold of the battery
boiler_logic_off_bottom(battery_soc, grid_power, pv_power_history, critical_loads_history) ==
    IF battery_soc < entry_data.battery_soc_bottom THEN "none"
    ELSE IF grid_power > entry_data.grid_threshold THEN "none"
    ELSE IF pv_power_history = None \/ critical_loads_history = None THEN "error"
    ELSE IF 4 * pv_power_history
              < 3 * (critical_loads_history + entry_data.boiler_power)
    THEN "none"
    ELSE "on"

\* boiler_logic_off starting at 65% of the load instead of 75%
boiler_logic_off_65(battery_soc, grid_power, pv_power_history, critical_loads_history) ==
    IF battery_soc < entry_data.battery_soc_top THEN "none"
    ELSE IF grid_power > entry_data.grid_threshold THEN "none"
    ELSE IF pv_power_history = None \/ critical_loads_history = None THEN "error"
    ELSE IF 20 * pv_power_history
              < 13 * (critical_loads_history + entry_data.boiler_power)
    THEN "none"
    ELSE "on"

\* the branch "else:" (OFF -> ON)
boiler_logic_off(battery_soc, grid_power, pv_power_history, critical_loads_history) ==
    IF battery_soc < entry_data.battery_soc_top THEN "none"
    ELSE IF grid_power > entry_data.grid_threshold THEN "none"
    ELSE IF pv_power_history = None \/ critical_loads_history = None THEN "error"
    ELSE IF 4 * pv_power_history
              < 3 * (critical_loads_history + entry_data.boiler_power)
    THEN "none"
    ELSE "on"

boiler_logic_decision(boiler_power_on, battery_soc, grid_power, pv_power_history, critical_loads_history, critical_loads, boiler_heating) ==
    IF boiler_power_on
    THEN boiler_logic_on(battery_soc, grid_power, pv_power_history,
                         critical_loads_history, critical_loads, boiler_heating)
    ELSE boiler_logic_off(battery_soc, grid_power, pv_power_history,
                          critical_loads_history)

\* manager.run() that plans and controls whatever the MQTT connection is
run_mqtt_unchecked(w, status, conf_mode, switch_on, st, ph, in, now_) ==
    IF in.boiler_connection = "Disconnected"
    THEN [w |-> w, status |-> "Paused - Warning (Boiler Disconnected)",
          pc |-> "idle", branch |-> "boiler_disconnected"]
    ELSE
    LET status1 == IF status = "Paused - Warning (Boiler Disconnected)"
                   THEN "Running" ELSE status
        w1 == night_pre_heating(w, switch_on, st, now_)
    IN  IF ph = None
        THEN [w |-> w1, status |-> status1, pc |-> "idle", branch |-> "no_phase"]
        ELSE IF w1.d.night_preheating
        THEN [w |-> w1, status |-> status1, pc |-> "idle", branch |-> "preheating"]
        ELSE [w |-> w1, status |-> status1, pc |-> "hist_cl", branch |-> "boiler_logic"]

\* run() up to the first history fetch of boiler_logic: [w, status, pc, branch]
run(w, status, conf_mode, switch_on, st, ph, in, now_) ==
    IF in.boiler_connection = "Disconnected"
    THEN [w |-> w, status |-> "Paused - Warning (Boiler Disconnected)",
          pc |-> "idle", branch |-> "boiler_disconnected"]
    ELSE
    LET status1 == IF status = "Paused - Warning (Boiler Disconnected)"
                   THEN "Running" ELSE status
    IN  IF conf_mode = "automatic" /\ ~w.d.mqtt_connected
        THEN [w |-> w, status |-> status1, pc |-> "idle", branch |-> "mqtt_lost"]
        ELSE
        LET w1 == night_pre_heating(w, switch_on, st, now_)
        IN  IF ph = None
            THEN [w |-> w1, status |-> status1, pc |-> "idle", branch |-> "no_phase"]
            ELSE IF w1.d.night_preheating
            THEN [w |-> w1, status |-> status1, pc |-> "idle", branch |-> "preheating"]
            ELSE [w |-> w1, status |-> status1, pc |-> "hist_cl", branch |-> "boiler_logic"]

\* ------------------------------------------------------------ inputs
\* what the sensors and the recorder may deliver when they are read
Temps == {5, 45, 70}
SchedInputs ==
    [ boiler_temp : Temps, yesterday_boiler_temp : {None, 20},
      boiler_connection : {"Connected", "Disconnected"}, battery_soc : {50},
      forecast_today : {500, 5000}, forecast_tomorrow : {5000} ]
RunInputs == [ boiler_connection : {"Connected", "Disconnected"}, grid_power : {0} ]
DecideInputs ==
    [ pv_power_history : {3000}, critical_loads : {500},
      battery_soc : {70}, boiler_heating : {"on"} ]
\* the same with a forecast between the two readings and a tank that was hot
\* all of yesterday
SchedInputsOn ==
    [ boiler_temp : Temps, yesterday_boiler_temp : {None, 20, 70},
      boiler_connection : {"Connected", "Disconnected"}, battery_soc : {50},
      forecast_today : {500, 800, 5000}, forecast_tomorrow : {5000} ]
\* the same with a battery below the bottom threshold as well
DecideInputsOn ==
    [ pv_power_history : {3000}, critical_loads : {500},
      battery_soc : {50, 70}, boiler_heating : {"on"} ]
HistoryInputs == {500}

\* the same, denser around the thresholds of boiler_logic
RunInputsBL == [ boiler_connection : {"Connected"}, grid_power : {150, 151} ]
DecideInputsBL ==
    [ pv_power_history : {None, 349, 350, 1749, 1750, 1874, 1875},
      critical_loads : {100, 500},
      battery_soc : {59, 60, 64, 65}, boiler_heating : {"on", "off"} ]
HistoryInputsBL == {None, 500}

MorningTimes == {3 * 60 * Minute, 6 * 60 * Minute}
MaxTime == Day + MaxHours * 60 * Minute

\* ------------------------------------------------------------ initial state
IdleTick == [pc |-> "idle", grid_power |-> 0, critical_loads_history |-> None]
IdleSched == [pc |-> "idle", from_calc |-> FALSE]
NoDecision ==
    [ boiler_power_on |-> FALSE, battery_soc |-> 0, grid_power |-> 0,
      pv_power_history |-> None, critical_loads_history |-> None,
      critical_loads |-> 0, boiler_heating |-> "off", result |-> "none",
      same |-> FALSE ]

NoProbe == [fn |-> "none", args |-> << >>, result |-> FALSE]
\* the step read no scheduler sensor
NoInput == [boiler_temp |-> None, yesterday_boiler_temp |-> None,
            boiler_connection |-> "", battery_soc |-> None,
            forecast_today |-> None, forecast_tomorrow |-> None]

\* the manager's control after setup in automatic solar configuration with
\* MQTT connected and a running mode restored: manager.run() and the grid-lost
\* handler registered, no MQTT timer, no message received yet.  pc and
\* caller are the position of a handler suspended in ManagerStatusSelect
\* ._set_state("Off") and the handler that called it; events counts the
\* operator's selections and the changes of the grid and of the connection.
Managing ==
    [ solar_conf_mode |-> "automatic", cancel_manager |-> TRUE,
      cancel_grid_lost_handler |-> TRUE, mqtt_timer_event |-> None,
      manager_last_state |-> "" (* None *), grid_lost |-> "0",
      component_loading |-> TRUE, pc |-> "idle", caller |-> "", events |-> 0 ]

\* the forecast sensors after a first successful fetch; good and failed are
\* history: the values of the last successful fetches, and whether the last
\* fetch failed
Forecasted ==
    [ today |-> 5000, tomorrow |-> 5000,
      good |-> [today |-> 5000, tomorrow |-> 5000],
      failed |-> [today |-> FALSE, tomorrow |-> FALSE] ]

\* async_setup_entry, the platforms' constructors, and the operator having
\* selected a running mode
Init ==
    /\ now = Day
    /\ data = [ night_heating_event |-> None, night_heating_calc_event |-> None,
                night_heating_planned |-> FALSE, night_heating_calc_planned |-> FALSE,
                night_heating_canceled |-> FALSE, night_preheating |-> FALSE,
                boiler_power_on |-> FALSE, mqtt_connected |-> TRUE ]
    /\ night_heating_switch = FALSE
    /\ settings \in [ morning_time : MorningTimes, night_heating_temp : {60},
                      heating_temp : {75},
                      manager_status_select : {"Manual", "Automatic"} ]
    /\ phase = None
    /\ manager_status_sensor = "Running"
    /\ timers = {}
    /\ boiler = [mode |-> "ANTIFREEZE", temperature |-> None]
    /\ ticks = [i \in 1..MaxTicks |-> IdleTick]
    /\ sched = [j \in 1..MaxSched |-> IdleSched]
    /\ cmd = NoCmd
    /\ last = [act |-> "init", branch |-> "", in |-> NoInput]
    /\ bl = NoDecision
    /\ probe = NoProbe
    /\ mgr = Managing
    /\ forecast = Forecasted

Idle == (\A i \in DOMAIN ticks : ticks[i].pc = "idle")
        /\ (\A j \in 1..MaxSched : sched[j].pc = "idle")

\* a handler body's state written back
Commit(w) ==
    /\ data' = w.d
    /\ timers' = w.timers
    /\ boiler' = w.boiler
    /\ cmd' = w.cmd

\* ------------------------------------------------------------ actions
\* time passes while no coroutine is suspended, not past a pending timer
Advance ==
    /\ Idle /\ mgr.pc = "idle"
    /\ now < MaxTime
    /\ \A t \in timers : t.at > now
    /\ mgr.mqtt_timer_event = None \/ mgr.mqtt_timer_event > now
    /\ LET target == Min2(now + StepMinutes * Minute, MaxTime)
           due == {t.at : t \in {u \in timers : u.at <= target}}
                  \cup {a \in {mgr.mqtt_timer_event} : a # None /\ a <= target}
       IN  now' = IF due = {} THEN target
                  ELSE CHOOSE a \in due : \A b \in due : a <= b
    /\ cmd' = NoCmd
    /\ last' = [act |-> "advance", branch |-> "", in |-> NoInput]
    /\ UNCHANGED << data, night_heating_switch, settings, phase,
                    manager_status_sensor, timers, boiler, ticks, sched, bl, probe, mgr, forecast >>

\* async_track_time_interval fires: manager.run() runs to its first suspension
Tick(i, Inputs) ==
    /\ mgr.cancel_manager
    /\ ticks[i].pc = "idle"
    /\ \A k \in 1..(i - 1) : ticks[k].pc # "idle"
    /\ \E in \in Inputs :
         LET r == run(World, manager_status_sensor, mgr.solar_conf_mode,
                      night_heating_switch, settings, phase, in, now)
         IN  /\ Commit(r.w)
             /\ manager_status_sensor' = r.status
             /\ ticks' = [ticks EXCEPT ![i] =
                    IF r.pc = "idle" THEN IdleTick
                    ELSE [pc |-> r.pc, grid_power |-> in.grid_power,
                          critical_loads_history |-> None]]
             /\ last' = [act |-> "tick", branch |-> r.branch, in |-> NoInput]
    /\ UNCHANGED << now, night_heating_switch, settings, phase, sched, bl, probe, mgr, forecast >>

\* boiler_logic resumed with the critical-load history; fetches the PV history
TickHistory(i, Inputs) ==
    /\ ticks[i].pc = "hist_cl"
    /\ \E h \in Inputs :
         ticks' = [ticks EXCEPT ![i].pc = "hist_pv", ![i].critical_loads_history = h]
    /\ cmd' = NoCmd
    /\ last' = [act |-> "tick_history", branch |-> "", in |-> NoInput]
    /\ UNCHANGED << now, data, night_heating_switch, settings, phase,
                    manager_status_sensor, timers, boiler, sched, bl, probe, mgr, forecast >>

\* boiler_logic resumed with the PV history: reads the sensors, decides and
\* issues the first service call of _boiler_power
TickDecide(i, Inputs) ==
    /\ ticks[i].pc = "hist_pv"
    /\ \E in \in Inputs :
         LET t == ticks[i]
             res == boiler_logic_decision(data.boiler_power_on, in.battery_soc,
                        t.grid_power, in.pv_power_history, t.critical_loads_history,
                        in.critical_loads, in.boiler_heating)
             w == IF res = "on"
                  THEN boiler_power_set_temperature(World, settings.heating_temp, "bl")
                  ELSE IF res = "off" THEN boiler_power_antifreeze(World, "bl")
                  ELSE World
         IN  /\ Commit(w)
             /\ ticks' = [ticks EXCEPT ![i] =
                    IF res = "on" THEN [t EXCEPT !.pc = "on_temp"]
                    ELSE IF res = "off" THEN [t EXCEPT !.pc = "off_mode"]
                    ELSE IdleTick]
             /\ bl' = [ boiler_power_on |-> data.boiler_power_on,
                        battery_soc |-> in.battery_soc, grid_power |-> t.grid_power,
                        pv_power_history |-> in.pv_power_history,
                        critical_loads_history |-> t.critical_loads_history,
                        critical_loads |-> in.critical_loads,
                        boiler_heating |-> in.boiler_heating, result |-> res,
                        same |-> /\ bl.result = "on"
                                 /\ bl.battery_soc = in.battery_soc
                                 /\ bl.grid_power = t.grid_power
                                 /\ bl.pv_power_history = in.pv_power_history
                                 /\ bl.critical_loads_history = t.critical_loads_history ]
             /\ last' = [act |-> "tick_decide", branch |-> res, in |-> NoInput]
    /\ UNCHANGED << now, night_heating_switch, settings, phase,
                    manager_status_sensor, sched, probe, mgr, forecast >>

\* _boiler_power called by boiler_logic, resumed after a service call
TickAck(i) ==
    /\ ticks[i].pc \in {"on_temp", "on_mode", "off_mode"}
    /\ LET pc == ticks[i].pc
           w == IF pc = "on_temp" THEN boiler_power_manual(World, "bl")
                ELSE IF pc = "on_mode" THEN [World EXCEPT !.d.boiler_power_on = TRUE]
                ELSE [World EXCEPT !.d.boiler_power_on = FALSE]
       IN  /\ Commit(w)
           /\ ticks' = [ticks EXCEPT ![i] =
                  IF pc = "on_temp" THEN [@ EXCEPT !.pc = "on_mode"] ELSE IdleTick]
           /\ last' = [act |-> "tick_ack", branch |-> pc, in |-> NoInput]
    /\ UNCHANGED << now, night_heating_switch, settings, phase,
                    manager_status_sensor, sched, bl, probe, mgr, forecast >>

\* the host after timer t fired: a daily timer stays pending for the next
\* day, a one-shot timer is gone and its handle is used up
Fired(w, t) ==
    IF t.every
    THEN [w EXCEPT !.timers = (@ \ {t}) \cup {[t EXCEPT !.at = @ + Day]}]
    ELSE [w EXCEPT !.timers = @ \ {t},
                   !.d = [s \in DOMAIN @ |-> IF s \in {"night_heating_event",
                                                       "night_heating_calc_event"}
                                                /\ @[s] = t.id
                                             THEN Stale ELSE @[s]]]

\* a pending timer is due: the host calls its callback, which runs to its
\* first suspension (the callback sees an instant just after the timer's)
FireTimer(j, Inputs) ==
    /\ sched[j].pc = "idle"
    /\ \A k \in 1..(j - 1) : sched[k].pc # "idle"
    /\ \E t \in timers :
         /\ t.at <= now
         /\ \A u \in timers : t.at <= u.at
         /\ \E in \in Inputs :
              LET now1 == Max2(now, t.at + 1)
                  w == Fired(World, t)
                  r == IF t.cb = "calc"
                       THEN [w |-> cancel(w, "night_heating_calc_event"),
                             pc |-> "calc_hist", branch |-> "calc"]
                       ELSE IF t.cb = "start"
                       THEN start_night_pre_heating(w, FALSE, settings, in, now1)
                       ELSE end_pre_heating(w, FALSE, "")
              IN  /\ now' = now1
                  /\ Commit(r.w)
                  /\ sched' = [sched EXCEPT ![j] = [pc |-> r.pc, from_calc |-> FALSE]]
                  /\ last' = [act |-> t.cb, branch |-> r.branch,
                              in |-> IF t.cb = "start" THEN in ELSE NoInput]
    /\ UNCHANGED << night_heating_switch, settings, phase, manager_status_sensor,
                    ticks, bl, probe, mgr, forecast >>

\* _plan_start_night_pre_heating resumed with yesterday's minimum temperature
PlanResume(j, Inputs) ==
    /\ sched[j].pc = "calc_hist"
    /\ \E in \in Inputs :
         LET r == plan_start_night_pre_heating(World, settings, in, now)
         IN  /\ Commit(r.w)
             /\ sched' = [sched EXCEPT ![j] =
                    [pc |-> r.pc, from_calc |-> r.pc # "idle"]]
             /\ last' = [act |-> "plan", branch |-> r.branch, in |-> in]
    /\ UNCHANGED << now, night_heating_switch, settings, phase,
                    manager_status_sensor, ticks, bl, probe, mgr, forecast >>

\* a scheduler callback resumed after a service call of _boiler_power
SchedAck(j) ==
    /\ sched[j].pc \in {"start_temp", "start_mode", "end_mode"}
    /\ LET pc == sched[j].pc
           fc == sched[j].from_calc
           r == IF pc = "start_temp" THEN start_night_pre_heating_resume_temp(World)
                ELSE IF pc = "start_mode"
                THEN start_night_pre_heating_resume(World, fc, settings, now)
                ELSE end_pre_heating_resume(World, fc)
       IN  /\ Commit(r.w)
           /\ sched' = [sched EXCEPT ![j] =
                  [pc |-> r.pc, from_calc |-> fc /\ r.pc # "idle"]]
           /\ last' = [act |-> "sched_ack", branch |-> r.branch, in |-> NoInput]
    /\ UNCHANGED << now, night_heating_switch, settings, phase,
                    manager_status_sensor, ticks, bl, probe, mgr, forecast >>

\* NightHeatingSwitch._toggle_state(value).  The call of _boiler_power(False)
\* at "Turn off boiler" creates a coroutine that is never awaited: no service
\* call is made and boiler_power_on is not written.
toggle_state(w, value, status) ==
    IF value THEN w
    ELSE LET w1 == IF status # "Initializing"
                   THEN cancel(cancel(w, "night_heating_event"),
                               "night_heating_calc_event")
                   ELSE w
         IN  [w1 EXCEPT !.d.night_heating_planned = FALSE,
                        !.d.night_heating_calc_planned = FALSE,
                        !.d.night_heating_canceled = FALSE,
                        !.d.night_preheating = FALSE]

\* async_turn_on / async_turn_off of the feature switch
Toggle(value) ==
    /\ night_heating_switch # value
    /\ night_heating_switch' = value
    /\ Commit(toggle_state(World, value, manager_status_sensor))
    /\ last' = [act |-> IF value THEN "turn_on" ELSE "turn_off",
                branch |-> IF data.night_preheating THEN "preheating" ELSE "", in |-> NoInput]
    /\ UNCHANGED << now, settings, phase, manager_status_sensor, ticks, sched, bl, probe, mgr, forecast >>

\* MQTTMessageHandler.async_mqtt_message_received: the first message of a
\* ConsumptionOnOutput topic sets the phase
PhaseDiscovered ==
    /\ phase = None
    /\ phase' = 1
    /\ cmd' = NoCmd
    /\ mgr' = [mgr EXCEPT !.component_loading = FALSE]
    /\ last' = [act |-> "phase", branch |-> "", in |-> NoInput]
    /\ UNCHANGED << now, data, night_heating_switch, settings,
                    manager_status_sensor, timers, boiler, ticks, sched, bl, probe, forecast >>

\* ------------------------------------------------------------ manager control
\* async_call_later(hass, 30, ...): the delay of the MQTT timer
MqttTimeout == Minute \div 2

\* the part of the state the control handlers read and write: the world, the
\* manager's control, ManagerStatusSensor and ManagerStatusSelect._state
Control == [w |-> World, m |-> mgr, status |-> manager_status_sensor,
            select |-> settings.manager_status_select]

\* ManagerStatusSelect._set_state("Off") from "Reset variables" on
set_state_off_reset(x) ==
    [x EXCEPT !.w.d.night_heating_planned = FALSE,
              !.w.d.night_heating_calc_planned = FALSE,
              !.w.d.night_heating_canceled = FALSE,
              !.w.d.night_preheating = FALSE,
              !.status = "Off", !.select = "Off", !.m.pc = "idle"]

\* _set_state("Off") to its return or to its await of _boiler_power(False)
set_state_off(x) ==
    IF x.status = "Initializing" THEN set_state_off_reset(x)
    ELSE
    LET x1 == [x EXCEPT !.m.cancel_manager = FALSE,
                        !.m.cancel_grid_lost_handler = FALSE,
                        !.w = cancel(cancel(@, "night_heating_event"),
                                     "night_heating_calc_event")]
    IN  IF x1.w.boiler.mode = "MANUAL"
        THEN [x1 EXCEPT !.w = boiler_power_antifreeze(@, "select"),
                        !.m.pc = "off_mode"]
        ELSE set_state_off_reset(x1)

\* _set_state("Automatic" | "Manual")
set_state_on(x, state) ==
    IF x.select # "Off" THEN [x EXCEPT !.select = state]
    ELSE IF x.m.solar_conf_mode = "automatic" /\ ~x.w.d.mqtt_connected
    THEN [x EXCEPT !.status = "Off - Warning (MQTT connection lost)", !.select = "Off"]
    ELSE IF x.status # "Initializing" /\ x.m.grid_lost # "0"
    THEN [x EXCEPT !.status = "Off - Warning (Grid Lost)", !.select = "Off"]
    ELSE [x EXCEPT !.m.cancel_manager = TRUE, !.m.cancel_grid_lost_handler = TRUE,
                   !.status = "Running", !.select = state]

\* what the caller of async_select_option("Off") does once it has returned
after_select_off(x, caller) ==
    IF caller = "grid_lost" THEN [x EXCEPT !.status = "Off - Warning (Grid Lost)"]
    ELSE IF caller = "grid_unknown"
    THEN [x EXCEPT !.status = "Off - Warning (Grid Unknown)"]
    ELSE IF caller = "mqtt_timer"
    THEN [x EXCEPT !.status = "Off - Warning (MQTT connection lost)"]
    ELSE IF caller = "mqtt_restored" THEN [x EXCEPT !.status = "Off"]
    ELSE x

\* async_select_option("Off") called by caller, with what follows it when
\* _set_state returns without suspending
select_off(x, caller) ==
    LET x1 == set_state_off(x)
    IN  IF x1.m.pc = "off_mode" THEN [x1 EXCEPT !.m.caller = caller]
        ELSE after_select_off(x1, caller)

\* PVWaterHeatingManager.grid_lost_handler for the new state new_data
grid_lost_handler(x, new_data) ==
    IF x.m.solar_conf_mode = "automatic" /\ ~x.w.d.mqtt_connected THEN x
    ELSE IF x.m.component_loading THEN x
    ELSE IF new_data = "1" THEN select_off(x, "grid_lost")
    ELSE IF new_data \notin {"0", "1"} THEN select_off(x, "grid_unknown")
    ELSE x

\* async_mqtt_connection_changed that leaves the MQTT timer pending when the
\* connection is restored
async_mqtt_connection_changed_keeps_timer(x, event, now_) ==
    LET last_mqtt_connected == x.w.d.mqtt_connected
        x1 == [x EXCEPT !.w.d.mqtt_connected = event]
    IN  IF ~last_mqtt_connected /\ event
        THEN IF x1.m.manager_last_state = "" THEN x1
             ELSE IF x1.m.manager_last_state = "Off"
             THEN select_off(x1, "mqtt_restored")
             ELSE [set_state_on(x1, x1.m.manager_last_state)
                      EXCEPT !.status = "Running"]
        ELSE IF last_mqtt_connected /\ ~event
        THEN [x1 EXCEPT !.status = "Running - Warning (MQTT connection lost)",
                        !.m.manager_last_state = x.select,
                        !.m.mqtt_timer_event = now_ + MqttTimeout]
        ELSE x1

\* MQTTMessageHandler.async_mqtt_connection_changed(event)
async_mqtt_connection_changed(x, event, now_) ==
    LET last_mqtt_connected == x.w.d.mqtt_connected
        x1 == [x EXCEPT !.w.d.mqtt_connected = event]
    IN  IF ~last_mqtt_connected /\ event
        THEN LET x2 == [x1 EXCEPT !.m.mqtt_timer_event = None]
             IN  IF x2.m.manager_last_state = "" THEN x2
                 ELSE IF x2.m.manager_last_state = "Off"
                 THEN select_off(x2, "mqtt_restored")
                 ELSE [set_state_on(x2, x2.m.manager_last_state)
                          EXCEPT !.status = "Running"]
        ELSE IF last_mqtt_connected /\ ~event
        THEN [x1 EXCEPT !.status = "Running - Warning (MQTT connection lost)",
                        !.m.manager_last_state = x.select,
                        !.m.mqtt_timer_event = now_ + MqttTimeout]
        ELSE x1

\* a control handler's state written back
CommitControl(x) ==
    /\ Commit(x.w)
    /\ mgr' = x.m
    /\ manager_status_sensor' = x.status
    /\ settings' = [settings EXCEPT !.manager_status_select = x.select]

\* an event of the manager's environment is counted
Counted(x) == [x EXCEPT !.m.events = @ + 1]

\* the operator selects an option of the manager control
SelectOption(option) ==
    /\ mgr.pc = "idle"
    /\ mgr.events < MaxEvents
    /\ CommitControl(IF option = "Off" THEN select_off(Counted(Control), "operator")
                     ELSE set_state_on(Counted(Control), option))
    /\ last' = [act |-> "select", branch |-> option, in |-> NoInput]
    /\ UNCHANGED << now, night_heating_switch, phase, ticks, sched, bl, probe, forecast >>

\* sensor.venus_grid_lost changes to new_data: the state change event reaches
\* grid_lost_handler while it is registered
GridChanged(new_data) ==
    /\ mgr.pc = "idle"
    /\ mgr.events < MaxEvents
    /\ new_data # mgr.grid_lost
    /\ LET x == [Counted(Control) EXCEPT !.m.grid_lost = new_data]
       IN  CommitControl(IF mgr.cancel_grid_lost_handler
                         THEN grid_lost_handler(x, new_data) ELSE x)
    /\ last' = [act |-> "grid", branch |-> new_data, in |-> NoInput]
    /\ UNCHANGED << now, night_heating_switch, phase, ticks, sched, bl, probe, forecast >>

\* the MQTT client reports a change of its connection (automatic solar
\* configuration only: the handler is subscribed at setup)
MqttConnectionChanged(event) ==
    /\ mgr.pc = "idle"
    /\ mgr.events < MaxEvents
    /\ mgr.solar_conf_mode = "automatic"
    /\ event # data.mqtt_connected
    /\ CommitControl(async_mqtt_connection_changed(Counted(Control), event, now))
    /\ last' = [act |-> "mqtt", branch |-> IF event THEN "connected" ELSE "lost",
                in |-> NoInput]
    /\ UNCHANGED << now, night_heating_switch, phase, ticks, sched, bl, probe, forecast >>

\* the MQTT timer fires: async_mqtt_lost_connection
MqttLostConnection ==
    /\ mgr.pc = "idle"
    /\ mgr.mqtt_timer_event # None /\ mgr.mqtt_timer_event <= now
    /\ now' = Max2(now, mgr.mqtt_timer_event + 1)
    /\ CommitControl(select_off([Control EXCEPT !.m.mqtt_timer_event = None],
                                "mqtt_timer"))
    /\ last' = [act |-> "mqtt_timer", branch |-> "", in |-> NoInput]
    /\ UNCHANGED << night_heating_switch, phase, ticks, sched, bl, probe, forecast >>

\* _set_state("Off") resumed after _boiler_power(False) was acknowledged
SetStateAck ==
    /\ mgr.pc = "off_mode"
    /\ CommitControl(after_select_off(
           set_state_off_reset([Control EXCEPT !.w.d.boiler_power_on = FALSE]),
           mgr.caller))
    /\ last' = [act |-> "select_ack", branch |-> mgr.caller, in |-> NoInput]
    /\ UNCHANGED << now, night_heating_switch, phase, ticks, sched, bl, probe, forecast >>

Next ==
    \/ Advance
    \/ \E i \in 1..MaxTicks : Tick(i, RunInputs)
    \/ \E i \in 1..MaxTicks : TickHistory(i, HistoryInputs)
    \/ \E i \in 1..MaxTicks : TickDecide(i, DecideInputs)
    \/ \E i \in 1..MaxTicks : TickAck(i)
    \/ \E j \in 1..MaxSched : FireTimer(j, SchedInputs)
    \/ \E j \in 1..MaxSched : PlanResume(j, SchedInputs)
    \/ \E j \in 1..MaxSched : SchedAck(j)
    \/ \E v \in BOOLEAN : Toggle(v)
    \/ PhaseDiscovered

Spec == Init /\ [][Next]_vars

\* ------------------------------------------------------------ other environments
\* the feature switch restored as "on" at setup and left on
InitOn ==
    /\ Init!1 /\ Init!2 /\ night_heating_switch = TRUE
    /\ Init!4 /\ Init!5 /\ Init!6 /\ Init!7 /\ Init!8 /\ Init!9 /\ Init!10
    /\ Init!11 /\ Init!12 /\ Init!13 /\ Init!14 /\ Init!15 /\ Init!16

NextOn ==
    \/ Advance
    \/ \E i \in 1..MaxTicks : Tick(i, RunInputs)
    \/ \E i \in 1..MaxTicks : TickHistory(i, HistoryInputs)
    \/ \E i \in 1..MaxTicks : TickDecide(i, DecideInputsOn)
    \/ \E i \in 1..MaxTicks : TickAck(i)
    \/ \E j \in 1..MaxSched : FireTimer(j, SchedInputsOn)
    \/ \E j \in 1..MaxSched : PlanResume(j, SchedInputsOn)
    \/ \E j \in 1..MaxSched : SchedAck(j)
    \/ PhaseDiscovered

SpecOn == InitOn /\ [][NextOn]_vars

\* async_setup_entry for a solar configuration mode, the MQTT client's
\* connection at setup and the option the select restores ("" when none)
setup(conf, connected, restored) ==
    LET x0 == [ w |-> [ d |-> [ night_heating_event |-> None,
                                night_heating_calc_event |-> None,
                                night_heating_planned |-> FALSE,
                                night_heating_calc_planned |-> FALSE,
                                night_heating_canceled |-> FALSE,
                                night_preheating |-> FALSE,
                                boiler_power_on |-> FALSE,
                                mqtt_connected |-> connected ],
                        timers |-> {},
                        boiler |-> [mode |-> "ANTIFREEZE", temperature |-> None],
                        cmd |-> NoCmd ],
                m |-> [Managing EXCEPT !.solar_conf_mode = conf,
                                       !.cancel_manager = FALSE,
                                       !.cancel_grid_lost_handler = FALSE],
                status |-> "Initializing", select |-> "Off" ]
        x1 == IF restored = "" THEN x0
              ELSE IF restored = "Off" THEN set_state_off(x0)
              ELSE set_state_on(x0, restored)
    IN  IF conf = "automatic" /\ ~connected
        THEN [x1 EXCEPT !.status = "Off - Warning (MQTT connection lost)"]
        ELSE x1

\* ManagerStatusSelect.options with the VRM token and site configured
Options == {"Automatic", "Manual", "Off"}

\* the values sensor.venus_grid_lost takes
GridValues == {"0", "1", "unknown"}

\* one scheduler path per outcome: a cold or a hot tank, a sunny tomorrow
SchedInputsStatus ==
    [ boiler_temp : {5, 70}, yesterday_boiler_temp : {None, 20},
      boiler_connection : {"Connected"}, battery_soc : {50},
      forecast_today : {5000}, forecast_tomorrow : {5000} ]

\* every setup at noon: both solar configuration modes, MQTT connected or
\* not, any restored option; the feature switch restored as "on"
InitStatus ==
    /\ now = Day + 12 * 60 * Minute
    /\ \E conf \in {"automatic", "manual"}, connected \in BOOLEAN :
       \E restored \in Options \cup {""} :
         LET x == setup(conf, connected, restored)
         IN  /\ conf = "manual" => connected
             /\ data = x.w.d
             /\ mgr = x.m
             /\ manager_status_sensor = x.status
             /\ settings = [ morning_time |-> 6 * 60 * Minute,
                             night_heating_temp |-> 60, heating_temp |-> 75,
                             manager_status_select |-> x.select ]
             /\ phase = IF conf = "manual" THEN 1 ELSE None
    /\ night_heating_switch = TRUE
    /\ Init!7 /\ Init!8 /\ Init!9 /\ Init!10
    /\ Init!11 /\ Init!12 /\ Init!13 /\ Init!14 /\ Init!16

\* the manager under its control: the operator's select, the MQTT
\* connection and the grid-lost sensor
NextStatus ==
    \/ Advance
    \/ \E i \in 1..MaxTicks : Tick(i, RunInputs)
    \/ \E i \in 1..MaxTicks : TickHistory(i, HistoryInputs)
    \/ \E i \in 1..MaxTicks : TickDecide(i, DecideInputs)
    \/ \E i \in 1..MaxTicks : TickAck(i)
    \/ \E j \in 1..MaxSched : FireTimer(j, SchedInputsStatus)
    \/ \E j \in 1..MaxSched : PlanResume(j, SchedInputsStatus)
    \/ \E j \in 1..MaxSched : SchedAck(j)
    \/ PhaseDiscovered
    \/ \E option \in Options : SelectOption(option)
    \/ \E v \in GridValues : GridChanged(v)
    \/ \E event \in BOOLEAN : MqttConnectionChanged(event)
    \/ MqttLostConnection
    \/ SetStateAck

SpecStatus == InitStatus /\ [][NextStatus]_vars

\* async_update that clears the sensor when the fetch fails
async_update_clears(native_value, outcome, value) ==
    IF outcome = "ok" THEN [native_value |-> value, raised |-> "none"]
    ELSE [native_value |-> 0, raised |-> "UpdateFailed"]

\* PvGenerationForecast*Sensor.async_update: the fetch times out, answers
\* without the forecast total, or delivers value
async_update(native_value, outcome, value) ==
    IF outcome = "ok" THEN [native_value |-> value, raised |-> "none"]
    ELSE [native_value |-> native_value, raised |-> "UpdateFailed"]

FetchOutcomes == {"ok", "timeout", "status", "malformed"}
ForecastValues == {500, 5000}

\* the host polls a forecast sensor (SCAN_INTERVAL)
Refresh(day) ==
    /\ \E outcome \in FetchOutcomes, value \in ForecastValues :
         LET r == async_update(forecast[day], outcome, value)
         IN  /\ forecast' = [forecast EXCEPT
                    ![day] = r.native_value,
                    !.good[day] = IF outcome = "ok" THEN value ELSE @,
                    !.failed[day] = outcome # "ok"]
             /\ last' = [act |-> "refresh", branch |-> r.raised, in |-> NoInput]
    /\ cmd' = NoCmd
    /\ UNCHANGED << now, data, night_heating_switch, settings, phase,
                    manager_status_sensor, timers, boiler, ticks, sched, bl,
                    probe, mgr >>

\* the scheduler's reads with the forecast sensors at their stored values
SchedInputsStored ==
    [ boiler_temp : {5, 70}, yesterday_boiler_temp : {20},
      boiler_connection : {"Connected"}, battery_soc : {50},
      forecast_today : {forecast.today}, forecast_tomorrow : {forecast.tomorrow} ]

\* the manager in its automatic mode, the feature switch on
InitRefresh == InitOn /\ settings.manager_status_select = "Automatic"

\* the running manager and the polling of the forecast sensors
NextRefresh ==
    \/ Advance
    \/ \E i \in 1..MaxTicks : Tick(i, RunInputs)
    \/ \E i \in 1..MaxTicks : TickHistory(i, HistoryInputs)
    \/ \E i \in 1..MaxTicks : TickDecide(i, DecideInputs)
    \/ \E i \in 1..MaxTicks : TickAck(i)
    \/ \E j \in 1..MaxSched : FireTimer(j, SchedInputsStored)
    \/ \E j \in 1..MaxSched : PlanResume(j, SchedInputsStored)
    \/ \E j \in 1..MaxSched : SchedAck(j)
    \/ PhaseDiscovered
    \/ \E day \in {"today", "tomorrow"} : Refresh(day)

SpecRefresh == InitRefresh /\ [][NextRefresh]_vars

\* HeatingTemp._set_value that syncs the thermostat whatever the scheduler does
set_value_always(w, st, value) ==
    [w |-> boiler_power_set_temperature(w, value, "number"),
     st |-> [st EXCEPT !.heating_temp = value]]

\* HeatingTemp._set_value(value): the new target is stored, and sent to the
\* thermostat when night pre-heating is not active
set_value(w, st, value) ==
    [w |-> IF ~w.d.night_preheating
           THEN boiler_power_set_temperature(w, value, "number") ELSE w,
     st |-> [st EXCEPT !.heating_temp = value]]

\* the day-heating targets the operator chooses
HeatingTemps == {70, 75}

\* async_set_native_value of the day-heating target
SetHeatingTemp(value) ==
    /\ value # settings.heating_temp
    /\ LET r == set_value(World, settings, value)
       IN  Commit(r.w) /\ settings' = r.st
    /\ last' = [act |-> "set_heating_temp",
                branch |-> IF data.night_preheating THEN "preheating" ELSE "",
                in |-> NoInput]
    /\ UNCHANGED << now, night_heating_switch, phase, manager_status_sensor,
                    ticks, sched, bl, probe, mgr, forecast >>

\* the manager with the operator at the feature switch and at the
\* day-heating target
NextTemp ==
    \/ Advance
    \/ \E i \in 1..MaxTicks : Tick(i, RunInputs)
    \/ \E i \in 1..MaxTicks : TickHistory(i, HistoryInputs)
    \/ \E i \in 1..MaxTicks : TickDecide(i, DecideInputs)
    \/ \E i \in 1..MaxTicks : TickAck(i)
    \/ \E j \in 1..MaxSched : FireTimer(j, SchedInputsStatus)
    \/ \E j \in 1..MaxSched : PlanResume(j, SchedInputsStatus)
    \/ \E j \in 1..MaxSched : SchedAck(j)
    \/ \E v \in BOOLEAN : Toggle(v)
    \/ PhaseDiscovered
    \/ \E value \in HeatingTemps : SetHeatingTemp(value)

SpecTemp == Init /\ [][NextTemp]_vars

\* the hysteresis controller alone, the feature switch off, with sensor
\* values on both sides of every threshold
NextBL ==
    \/ \E i \in 1..MaxTicks : Tick(i, RunInputsBL)
    \/ \E i \in 1..MaxTicks : TickHistory(i, HistoryInputsBL)
    \/ \E i \in 1..MaxTicks : TickDecide(i, DecideInputsBL)
    \/ \E i \in 1..MaxTicks : TickAck(i)
    \/ PhaseDiscovered

SpecBL == Init /\ [][NextBL]_vars

\* _planned_to_past alone, applied to candidates around three instants of
\* a day: just after midnight, noon, just before midnight
PastNows == {Day + Minute, Day + 12 * 60 * Minute, Day + (23 * 60 + 58) * Minute}
PastOffsets ==
    {m * Minute : m \in {0 - 1445, 0 - 1440, 0 - 600, 0 - 6, 0 - 5, 0 - 4, 0 - 1,
                         0, 1, 2, 4, 6, 12, 600, 1436, 1440, 1446}}
    \cup {GuardMinutes * Minute - 1, GuardMinutes * Minute + 1, 0 - 1, 1}

PlannedToPast ==
    /\ \E n \in PastNows : \E off \in PastOffsets :
         probe' = [fn |-> "planned_to_past", args |-> <<n + off, n>>,
                   result |-> planned_to_past(n + off, n)]
    /\ UNCHANGED << now, data, night_heating_switch, settings, phase,
                    manager_status_sensor, timers, boiler, ticks, sched, cmd,
                    last, bl, mgr, forecast >>

SpecPast == Init /\ [][PlannedToPast]_vars

\* the forecast check alone, applied to target temperatures, battery charges
\* and forecasts around its thresholds, after midnight and before it
ForecastSettings ==
    [ morning_time : {6 * 60 * Minute}, night_heating_temp : {30, 60},
      heating_temp : {60, 75, 90}, manager_status_select : {"Automatic"} ]
ForecastInputs ==
    [ boiler_temp : {45}, yesterday_boiler_temp : {20},
      boiler_connection : {"Connected"}, battery_soc : {50, 65, 80},
      forecast_today : {0, 500, 720, 800, 5000}, forecast_tomorrow : {5000} ]
ForecastNows == {Day + 60 * Minute, Day + (22 * 60 + 30) * Minute}

ForecastCheck ==
    /\ \E st \in ForecastSettings : \E in \in ForecastInputs : \E n \in ForecastNows :
         probe' = [fn |-> "forecast_check", args |-> <<st, in, n>>,
                   result |-> forecast_check(st, in, n)]
    /\ UNCHANGED << now, data, night_heating_switch, settings, phase,
                    manager_status_sensor, timers, boiler, ticks, sched, cmd,
                    last, bl, mgr, forecast >>

SpecForecast == Init /\ [][ForecastCheck]_vars

\* the scheduler with, at any moment, the stored handle of a slot called
\* twice in a row
HandleState(h) == IF h = None THEN "None" ELSE IF h = Stale THEN "used" ELSE "pending"
CancelTwice ==
    /\ \E slot \in {"night_heating_event", "night_heating_calc_event"} :
         LET w1 == cancel(World, slot)
             w2 == cancel(w1, slot)
         IN  probe' = [fn |-> "cancel", args |-> <<slot, HandleState(data[slot])>>,
                       result |-> [ raised |-> <<cancel_raises(World, slot),
                                                 cancel_raises(w1, slot)>>,
                                    same |-> w2 = w1,
                                    pending |-> \E t \in w1.timers : t.id = data[slot] ]]
    /\ UNCHANGED << now, data, night_heating_switch, settings, phase,
                    manager_status_sensor, timers, boiler, ticks, sched, cmd,
                    last, bl, mgr, forecast >>

NextCancel == NextOn \/ CancelTwice
SpecCancel == InitOn /\ [][NextCancel]_vars

\* _calculate_boiler_heat alone, applied to boilers with and without a volume
\* and a power and to temperatures on both sides of the target
HeatPowers == {None, 0, 1000, 2000, 3000}
HeatVolumes == {None, 0, 80, 150}
HeatWaterTemps == {None, 5, 20, 40, 45, 60, 70}
HeatTargets == {30, 45, 60, 75}

CalculateBoilerHeat ==
    /\ \E p \in HeatPowers : \E v \in HeatVolumes :
       \E t \in HeatWaterTemps : \E g \in HeatTargets :
         probe' = [fn |-> "calculate_boiler_heat", args |-> <<p, v, t, g>>,
                   result |-> [ value  |-> IF calculate_boiler_heat_raises(p, v, t, g) = "none"
                                           THEN calculate_boiler_heat(p, v, t, g)
                                           ELSE << >>,
                                raised |-> calculate_boiler_heat_raises(p, v, t, g) ]]
    /\ UNCHANGED << now, data, night_heating_switch, settings, phase,
                    manager_status_sensor, timers, boiler, ticks, sched, cmd,
                    last, bl, mgr, forecast >>

SpecHeat == Init /\ [][CalculateBoilerHeat]_vars

\* ------------------------------------------------------------ hysteresis claims
\* the decision a tick of boiler_logic has just taken
Decided == last.act = "tick_decide"
HistoryKnown(b) == b.pv_power_history # None /\ b.critical_loads_history # None

\* the three conditions of Off -> On
SocAtTop(b) == b.battery_soc >= entry_data.battery_soc_top
GridWithin(b) == b.grid_power <= entry_data.grid_threshold
PvCoversStart(b) ==
    /\ HistoryKnown(b)
    /\ 4 * b.pv_power_history
         >= 3 * (b.critical_loads_history + entry_data.boiler_power)

\* C1: in a tick that finds boiler_power_on false a command is sent to the
\* actuator only if the battery is at or above the top threshold, the grid
\* import is at or below the grid threshold and the PV statistic is at least
\* 0.75 * (critical-load statistic + boiler power); when one of the three
\* fails no command is sent and boiler_power_on stays false.
C1_OffToOn ==
    (Decided /\ ~bl.boiler_power_on) =>
        /\ cmd.op # "none" =>
             /\ SocAtTop(bl) /\ GridWithin(bl) /\ PvCoversStart(bl)
             /\ cmd = [op |-> "set_temperature", by |-> "bl",
                       temperature |-> settings.heating_temp]
        /\ ~(SocAtTop(bl) /\ GridWithin(bl) /\ PvCoversStart(bl)) =>
             cmd = NoCmd /\ ~data.boiler_power_on

\* the battery one point under the top threshold, the other two conditions
\* met: nothing is commanded
C1_Witness ==
    /\ Decided /\ ~bl.boiler_power_on
    /\ bl.battery_soc = entry_data.battery_soc_top - 1
    /\ GridWithin(bl) /\ PvCoversStart(bl)
    /\ cmd = NoCmd /\ ~data.boiler_power_on

\* the conditions of On -> Off
StopConditions(b) ==
    \/ b.battery_soc < entry_data.battery_soc_bottom
    \/ b.grid_power > entry_data.grid_threshold
    \/ /\ HistoryKnown(b)
       /\ b.boiler_heating = "off"
       /\ 10 * b.pv_power_history
            < 7 * (b.critical_loads_history + entry_data.boiler_power)
       /\ 10 * b.pv_power_history < 7 * (b.critical_loads + entry_data.boiler_power)
    \/ /\ HistoryKnown(b)
       /\ b.boiler_heating # "off"
       /\ 10 * b.pv_power_history < 7 * b.critical_loads_history
       /\ 10 * b.pv_power_history < 7 * b.critical_loads

\* C6: when a tick has commanded the boiler on and the next tick sees the same
\* battery charge, grid import, PV statistic and critical-load statistic, with
\* the instantaneous critical load equal to the statistic, loads not negative
\* and bottom threshold below top threshold, the next tick does not command
\* the boiler off, whatever the hardware heating status.
C6_HysteresisStable ==
    ( /\ Decided /\ bl.same
      /\ bl.critical_loads = bl.critical_loads_history
      /\ bl.critical_loads >= 0
      /\ entry_data.battery_soc_bottom < entry_data.battery_soc_top )
    => (bl.result # "off" /\ cmd.op # "ANTIFREEZE")

\* the second tick in the On state, the hardware reporting that it idles
C6_Witness ==
    /\ Decided /\ bl.same /\ bl.boiler_power_on
    /\ bl.critical_loads = bl.critical_loads_history
    /\ bl.boiler_heating = "off"
    /\ 4 * bl.pv_power_history
         = 3 * (bl.critical_loads_history + entry_data.boiler_power)
    /\ cmd = NoCmd

\* C7: in a tick that finds boiler_power_on true the actuator is commanded off
\* if and only if the battery is below the bottom threshold, or the grid import
\* is above the grid threshold, or the hardware reports "off" and the PV
\* statistic is below 0.7 * (statistic + boiler power) and below
\* 0.7 * (instantaneous load + boiler power), or the hardware does not report
\* "off" and the PV statistic is below 0.7 * statistic and below
\* 0.7 * instantaneous load; in every other case no command is sent.
C7_OnToOff ==
    (Decided /\ bl.boiler_power_on) =>
        /\ cmd = [op |-> "ANTIFREEZE", by |-> "bl", temperature |-> None]
             <=> StopConditions(bl)
        /\ ~StopConditions(bl) => cmd = NoCmd

\* the statistic is under the limit and the instantaneous load is not: the
\* double check keeps the boiler on
C7_Witness ==
    /\ Decided /\ bl.boiler_power_on /\ HistoryKnown(bl)
    /\ bl.boiler_heating # "off"
    /\ 10 * bl.pv_power_history < 7 * bl.critical_loads_history
    /\ 10 * bl.pv_power_history >= 7 * bl.critical_loads
    /\ cmd = NoCmd

\* ------------------------------------------------------------ _planned_to_past
\* C9 (as the specification states it): _planned_to_past answers true when the
\* candidate is at or before the current instant or less than 5 minutes after
\* it, and false when the candidate is more than 5 minutes after it, also
\* when the two lie on different sides of midnight.
C9_Original ==
    probe.fn = "planned_to_past" =>
        LET ahead == probe.args[1] - probe.args[2]
        IN  /\ ahead < GuardMinutes * Minute => probe.result
            /\ ahead > GuardMinutes * Minute => ~probe.result

\* ------------------------------------------------------------ scheduler claims
FlagNames == {"night_heating_calc_planned", "night_heating_planned",
              "night_preheating", "night_heating_canceled"}
FlagsSet == {f \in FlagNames : data[f]}
SchedulerIdle == FlagsSet = {}
NoCallbackSuspended == \A j \in 1..MaxSched : sched[j].pc = "idle"
\* a tick has planned the calculation at least once
PlannedOnce == data.night_heating_calc_event # None
Off == [op |-> "ANTIFREEZE", by |-> "sched", temperature |-> None]

\* C2 (as the specification states it): when the feature switch is turned off
\* while the scheduler pre-heats (night_preheating set, the boiler commanded
\* on by the scheduler), the actuator receives the off command and all four
\* flags are false afterwards.
C2_Original ==
    ( /\ last.act = "turn_off" /\ last.branch = "preheating"
      /\ data.boiler_power_on
      /\ boiler.temperature = settings.night_heating_temp )
    => (cmd.op = "ANTIFREEZE" /\ boiler.mode = "ANTIFREEZE" /\ SchedulerIdle)

\* C3 (as the specification states it): wherever another callback may run, at
\* most one of the four scheduler flags is true.
C3_Original == Cardinality(FlagsSet) <= 1

C5_Original == cmd.by = "bl" => (~data.night_preheating /\ phase # None)

\* C8 (as the specification states it): when the start trigger has decided to
\* heat and the actuator has acknowledged the on command, the scheduler is in
\* PreheatActive with the end timer pending for the morning time, and no off
\* command has been sent.
C8_Original ==
    (last.act = "sched_ack" /\ last.branch \in {"heating_end_planned", "heating_off",
                                                "heating_cleanup"})
    => /\ FlagsSet = {"night_preheating"}
       /\ data.boiler_power_on
       /\ boiler.mode = "MANUAL"
       /\ boiler.temperature = settings.night_heating_temp
       /\ cmd.op # "ANTIFREEZE"
       /\ \E t \in timers : /\ t.cb = "end" /\ t.id = data.night_heating_event
                            /\ TimeOf(t.at) = settings.morning_time
                            /\ t.at > now

SchedulerState(d, ts) ==
    << [f \in FlagNames |-> d[f]], d.night_heating_event,
       d.night_heating_calc_event, ts >>

\* the tick just taken planned the calculation out of the state before it:
\* one more timer, a one-shot for the calc handler, its handle stored, and
\* calc_planned the only flag set
PlannedByTick ==
    /\ \E t \in timers' \ timers :
         /\ timers' = timers \cup {t}
         /\ t.cb = "calc" /\ ~t.every /\ t.at > now
         /\ data'.night_heating_calc_event = t.id
    /\ data'.night_heating_event = data.night_heating_event
    /\ {f \in FlagNames : data'[f]} = {"night_heating_calc_planned"}

\* C11 (as the specification states it): on a controller tick the scheduler
\* schedules the calc timer and sets calc_planned if and only if all four
\* flags are false and the feature switch is on; otherwise its flags and
\* timers are left unchanged.
C11_Original ==
    [][ last'.act = "tick" =>
          IF FlagsSet = {} /\ night_heating_switch
          THEN PlannedByTick
          ELSE SchedulerState(data', timers') = SchedulerState(data, timers)
      ]_vars

\* C11 (amended): on a controller tick that passes the connectivity checks of
\* run() (boiler not "Disconnected", MQTT connected) the scheduler schedules
\* the calc timer and sets calc_planned if and only if all four flags are
\* false and the feature switch is on; in every other tick its flags and
\* timers are left unchanged.
C11_PlanningTick ==
    [][ last'.act = "tick" =>
          IF /\ FlagsSet = {} /\ night_heating_switch
             /\ last'.branch \notin {"boiler_disconnected", "mqtt_lost"}
          THEN PlannedByTick
          ELSE SchedulerState(data', timers') = SchedulerState(data, timers)
      ]_vars

\* a tick has just planned the calculation
C11_Witness ==
    /\ last.act = "tick" /\ last.branch # "boiler_disconnected"
    /\ night_heating_switch
    /\ FlagsSet = {"night_heating_calc_planned"}
    /\ \E t \in timers : t.cb = "calc" /\ t.id = data.night_heating_calc_event

\* ------------------------------------------------------------ start trigger
\* the step just taken ran _start_night_pre_heating from its entry: as the
\* start timer's callback, or called by the calc handler
StartRan ==
    \/ last.act = "start"
    \/ last.act = "plan" /\ last.branch \notin {"start_planned", "calc_error"}
WaterSatisfied == last.in.boiler_temp - TempReserve >= settings.night_heating_temp
\* the deadline of the running cycle: the next morning time
NextMorning ==
    IF Combine(now, settings.morning_time) >= now
    THEN Combine(now, settings.morning_time)
    ELSE Combine(now, settings.morning_time) + Day
\* the deadline is neither past nor within the guard band
DeadlineAhead == NextMorning - now >= GuardMinutes * Minute
EndTimerAtDeadline ==
    \E t \in timers : /\ t.cb = "end" /\ t.id = data.night_heating_event
                      /\ t.at = NextMorning
NoStartPending == \A t \in timers : t.cb # "start"
\* the cycle is cancelled: Cancelled with the end timer pending for the
\* deadline, or, the deadline passed, cleaned up at once
CancelledForCycle ==
    /\ NoStartPending
    /\ ~data.night_heating_planned /\ ~data.night_preheating
    /\ ~data.night_heating_calc_planned
    /\ \/ data.night_heating_canceled /\ EndTimerAtDeadline
       \/ ~DeadlineAhead /\ SchedulerIdle /\ timers = {}

\* C12 (as the specification states it): when the start trigger runs while the
\* boiler is "Disconnected" and the water does not already satisfy the target,
\* no on command is sent, the cancellation flag is set and the end is
\* scheduled at the deadline (or the cleanup run at once if the deadline has
\* passed), and no further start trigger is scheduled.
C12_Original ==
    (StartRan /\ last.in.boiler_connection = "Disconnected" /\ ~WaterSatisfied)
    => (cmd.op \notin {"set_temperature", "MANUAL"} /\ CancelledForCycle)

\* C13 (as the specification states it): when the start trigger runs and
\* (water temperature - 3) >= pre-heat target, no command is sent, planned is
\* cleared, the cancellation flag is set and the end timer is scheduled at the
\* deadline, or, if the deadline has passed, cleanup runs at once and leaves
\* the scheduler Idle.
C13_Original ==
    (StartRan /\ WaterSatisfied) => (cmd = NoCmd /\ CancelledForCycle)

\* the heating duration the start trigger recomputes, and the whole minutes
\* left to the deadline
StartNeeded ==
    calculate_boiler_heat(entry_data.boiler_power, entry_data.boiler_volume,
                          last.in.boiler_temp - TempReserve,
                          settings.night_heating_temp)[2]
StartTimeLeft == ((NextMorning - now) \div Minute) * Minute
StartLead == StartTimeLeft - StartNeeded
\* the only timer is a start trigger in the minute of now + lead
RescheduledAtLead ==
    \E t \in timers :
        /\ timers = {t}
        /\ t.cb = "start" /\ t.id = data.night_heating_event
        /\ t.at \div Minute = (now + StartLead) \div Minute

\* C14: when the start trigger runs (the water not already at the target) and
\* time left to the deadline - recomputed needed time > 60 minutes, it sends no
\* command, schedules a new start trigger at now + (time left - needed time),
\* to the minute, leaves planned true and leaves the other scheduler flags as
\* they were (called by the calc handler, calc_planned is cleared by that
\* handler as after every calc run).
C14_Reschedule ==
    [][ (StartRan' /\ ~WaterSatisfied' /\ StartLead' > TooEarlyMinutes * Minute)
        => /\ cmd' = NoCmd
           /\ RescheduledAtLead'
           /\ data'.night_heating_planned
           /\ data'.night_heating_canceled = data.night_heating_canceled
           /\ data'.night_preheating = data.night_preheating
           /\ data'.boiler_power_on = data.boiler_power_on
           /\ IF last'.act = "start"
              THEN data'.night_heating_calc_planned = data.night_heating_calc_planned
              ELSE ~data'.night_heating_calc_planned
           /\ FlagsSet' = {"night_heating_planned"} ]_vars
C14_Witness ==
    /\ last.act = "start" /\ ~WaterSatisfied
    /\ StartLead > TooEarlyMinutes * Minute
    /\ RescheduledAtLead /\ FlagsSet = {"night_heating_planned"}

\* ------------------------------------------------------------ forecast check
\* the thermal energy (kWh, hundredths) that raises the tank by delta degrees
ThermalEnergy(delta) ==
    RoundDiv(4186 * entry_data.boiler_volume * delta, 36000)
\* min_temp = max(day target - temp_variable, configured minimum)
MinTemp(st) ==
    Max2(st.heating_temp - entry_data.temp_variable, entry_data.boiler_min_temp)
\* the battery top-up (kWh, hundredths) to the configured threshold:
\* capacity_Wh / 1000 * max(soc_target - soc_now, 0) / 100
TopUpEnergy(soc_now) ==
    RoundDiv(entry_data.battery_capacity
                 * Max2(entry_data.battery_soc_top - soc_now, 0), 1000)
ForecastChecked == probe.fn = "forecast_check"

\* C16 (as the specification states it): in the forecast check the day-heating
\* energy is the thermal energy that raises the tank by
\* delta = max(min_temp - preheat_target, 0) degrees, so it is positive
\* whenever min_temp > preheat_target (volume and power being non-zero).
C16_Original ==
    ForecastChecked =>
        LET st == probe.args[1]
            delta == Max2(MinTemp(st) - st.night_heating_temp, 0)
        IN  /\ probe.result.boiler_energy_day = ThermalEnergy(delta)
            /\ MinTemp(st) > st.night_heating_temp
                 => probe.result.boiler_energy_day > 0

\* C17 (as the specification states it): in the forecast check the battery
\* top-up is capacity_Wh / 1000 * max(soc_target - soc_now, 0) / 100 with the
\* configured threshold as soc_target; with 4800 Wh, soc_now 50, soc_target 65
\* and no day-heating need it is 0.72 kWh and the start proceeds exactly when
\* the forecast is at least 720 Wh.
C17_Original ==
    ForecastChecked =>
        LET in == probe.args[2]
        IN  /\ probe.result.battery_energy = TopUpEnergy(in.battery_soc)
            /\ (in.battery_soc = 50 /\ probe.result.boiler_energy_day = 0)
                 => /\ probe.result.battery_energy = 72
                    /\ ~probe.result.cancel <=> probe.result.pv_forecast >= 720

\* the start trigger came to its forecast check: water below the target, no
\* excess lead time, boiler connected
ReachedForecastCheck ==
    /\ StartRan /\ ~WaterSatisfied
    /\ StartLead <= TooEarlyMinutes * Minute
    /\ last.in.boiler_connection = "Connected"
\* day-heating energy + battery top-up energy (kWh, hundredths)
RequiredEnergy ==
    ThermalEnergy(Max2(MinTemp(settings) - settings.night_heating_temp, 0))
        + TopUpEnergy(last.in.battery_soc)
\* the forecast (Wh) for the day of the deadline
ForecastForDeadline ==
    IF DateOf(NextMorning) > DateOf(now)
    THEN last.in.forecast_tomorrow ELSE last.in.forecast_today
\* the start was given up: no on command, the cancellation/end path taken
StartGivenUp ==
    /\ cmd.op \notin {"set_temperature", "MANUAL"}
    /\ ~data.night_preheating /\ ~data.night_heating_planned
    /\ data.night_heating_canceled \/ SchedulerIdle

\* C15 (as the specification states it): at the start trigger the pre-heating
\* is cancelled for forecast reasons (no on command, cancellation/end path)
\* if and only if the mode is Automatic and the required energy, day-heating
\* energy + battery top-up energy in kWh, exceeds the forecast in Wh / 1000;
\* in Manual mode the forecast never prevents the start.
C15_Original ==
    ReachedForecastCheck =>
        (StartGivenUp <=> /\ settings.manager_status_select = "Automatic"
                          /\ RequiredEnergy * 10 > ForecastForDeadline)

\* ------------------------------------------------------------ calc trigger
\* the calc handler ran its planning and the heating duration it recomputed
\* from the lower of yesterday's minimum and the current temperature is zero
CalcZero ==
    /\ last.act = "plan" /\ last.in.yesterday_boiler_temp # None
    /\ calculate_boiler_heat(entry_data.boiler_power, entry_data.boiler_volume,
                             Min2(last.in.yesterday_boiler_temp, last.in.boiler_temp),
                             settings.night_heating_temp)[2] = 0

\* C18 (as the specification states it): when the calc trigger fires and the
\* recomputed heating duration is zero, the handler sets the cancellation
\* flag, schedules the end at the deadline, clears calc_planned and neither
\* schedules nor runs a start trigger.
C18_Original ==
    CalcZero =>
        /\ data.night_heating_canceled /\ EndTimerAtDeadline
        /\ ~data.night_heating_calc_planned
        /\ NoStartPending /\ ~StartRan

\* the only timer is a start trigger at the check time, CheckMinutes before
\* the morning time
CheckStartPlanned ==
    \E t \in timers :
        /\ timers = {t}
        /\ t.cb = "start" /\ t.id = data.night_heating_event
        /\ t.at > now /\ t.at - now <= Day
        /\ TimeOf(t.at) = (settings.morning_time - CheckMinutes * Minute) % Day

\* C18: when the calc trigger fires and the recomputed heating duration is
\* zero, the handler does not cancel the cycle: calc_planned is cleared and
\* the start trigger is either run at once or scheduled 120 minutes before the
\* morning time, with planned the only flag set, no command sent and no end
\* scheduled.
C18_CheckPlanned ==
    CalcZero =>
        /\ ~data.night_heating_calc_planned
        /\ \/ StartRan
           \/ /\ CheckStartPlanned /\ cmd = NoCmd
              /\ FlagsSet = {"night_heating_planned"}
C18_Witness ==
    CalcZero /\ ~StartRan /\ CheckStartPlanned /\ FlagsSet = {"night_heating_planned"}

C20_ZeroHeat ==
    probe.fn = "calculate_boiler_heat" =>
        LET boiler_power == probe.args[1]
            boiler_volume == probe.args[2]
            water_temp == probe.args[3]
            temp_to_heat == probe.args[4]
        IN  (\/ water_temp # None /\ temp_to_heat <= water_temp
             \/ boiler_volume \in {0, None} \/ boiler_power \in {0, None})
            => /\ probe.result.raised = "none"
               /\ probe.result.value = <<0, 0>>
C20_Witness ==
    /\ probe.fn = "calculate_boiler_heat"
    /\ probe.args[1] = 2000 /\ probe.args[2] = 150
    /\ probe.args[3] = 70 /\ probe.args[4] = 60
    /\ probe.result.value = <<0, 0>>

\* the thermal model applied to 150 l, 2000 W, water at 40, target 75
HeatExample ==
    /\ probe.fn = "calculate_boiler_heat"
    /\ probe.args = <<2000, 150, 40, 75>>

\* C21 (as the specification states it): for volume 150 l, power 2000 W, water
\* temperature 40 and target 75 the thermal model returns 3.14 kWh and
\* 94.2 minutes.
C21_Original ==
    HeatExample => probe.result.value = <<314, 9420>>

\* C21: for volume 150 l, power 2000 W, water temperature 40 and target 75 the
\* thermal model (energy = 4.186 * volume * deltaT / 3600 kWh, duration =
\* energy / (power / 1000) * 60 minutes) returns 6.10 kWh and 183.14 minutes.
C21_Example ==
    HeatExample =>
        /\ probe.result.raised = "none"
        /\ probe.result.value = <<610, 18314>>
C21_Witness ==
    HeatExample /\ probe.result.value[1] = 610 /\ probe.result.value[2] = 18314

\* ------------------------------------------------------------ C22
\* the tick saw the boiler 'Disconnected', or ran in automatic solar
\* configuration while MQTT was not connected
TickBlocked ==
    /\ last'.act = "tick"
    /\ \/ last'.branch = "boiler_disconnected"
       \/ mgr.solar_conf_mode = "automatic" /\ ~data.mqtt_connected

\* C22: a tick that sees the boiler 'Disconnected', or that runs in automatic
\* solar configuration while MQTT is not connected, runs neither the planning
\* nor the hysteresis: it schedules no timer, changes no flag, sends no
\* actuator command and does not enter boiler_logic.
C22_BlockedTick ==
    [][TickBlocked =>
         /\ SchedulerState(data', timers') = SchedulerState(data, timers)
         /\ data' = data
         /\ cmd' = NoCmd /\ boiler' = boiler
         /\ ticks' = ticks /\ bl' = bl]_vars

\* a tick ran while MQTT was lost and its timer was still pending, with the
\* feature switch on and nothing planned yet
C22_Witness ==
    /\ last.act = "tick" /\ last.branch = "mqtt_lost"
    /\ mgr.mqtt_timer_event # None
    /\ night_heating_switch /\ ~data.night_heating_calc_planned
    /\ ~data.night_heating_planned /\ ~data.night_heating_canceled
    /\ ~data.night_preheating /\ phase # None

\* ------------------------------------------------------------ C23
Paused == "Paused - Warning (Boiler Disconnected)"

\* C23: after a tick that sees the boiler 'Disconnected' the status is
\* 'Paused - Warning (Boiler Disconnected)'; after the first later tick that
\* sees it connected the status is no longer Paused and is 'Running' only if
\* MQTT is connected or the solar configuration is manual.
C23_Original ==
    [][last'.act = "tick" =>
         /\ last'.branch = "boiler_disconnected" => manager_status_sensor' = Paused
         /\ last'.branch # "boiler_disconnected" /\ manager_status_sensor = Paused
            => /\ manager_status_sensor' # Paused
               /\ manager_status_sensor' = "Running"
                  => mgr.solar_conf_mode = "manual" \/ data.mqtt_connected]_vars

\* ------------------------------------------------------------ C24
RunningMqttLost == "Running - Warning (MQTT connection lost)"
OffMqttLost == "Off - Warning (MQTT connection lost)"

\* async_mqtt_lost_connection has returned in this step
MqttTimeoutReturned ==
    \/ last'.act = "mqtt_timer" /\ mgr'.pc = "idle"
    \/ last'.act = "select_ack" /\ last'.branch = "mqtt_timer"

\* C24: when the MQTT connection is lost the status becomes 'Running - Warning
\* (MQTT connection lost)' and one timer is started for 30 seconds later; a
\* restored connection cancels the timer, which fires only while MQTT is
\* still disconnected, 30 seconds after the loss; when it has fired the
\* manager is Off, its tick cancelled, with status 'Off - Warning (MQTT
\* connection lost)'.
C24_MqttLossProtocol ==
    [][/\ last'.act = "mqtt" /\ last'.branch = "lost"
          => /\ manager_status_sensor' = RunningMqttLost
             /\ mgr.mqtt_timer_event = None
             /\ mgr'.mqtt_timer_event = now + MqttTimeout
       /\ last'.act = "mqtt" /\ last'.branch = "connected"
          => mgr'.mqtt_timer_event = None
       /\ last'.act = "mqtt_timer"
          => /\ ~data.mqtt_connected
             /\ now' = mgr.mqtt_timer_event + 1
             /\ mgr'.mqtt_timer_event = None
       /\ MqttTimeoutReturned
          => /\ settings'.manager_status_select = "Off"
             /\ ~mgr'.cancel_manager
             /\ manager_status_sensor' = OffMqttLost]_vars

\* the connection stayed lost for 30 seconds while the manager was running:
\* the timer has fired and switched it Off
C24_Witness ==
    /\ last.act \in {"mqtt_timer", "select_ack"}
    /\ mgr.pc = "idle" /\ ~data.mqtt_connected
    /\ manager_status_sensor = OffMqttLost
    /\ mgr.manager_last_state \in {"Automatic", "Manual"}
    /\ settings.manager_status_select = "Off"

\* ------------------------------------------------------------ C25
\* async_mqtt_connection_changed(True) has returned in this step
MqttRestoreReturned ==
    \/ last'.act = "mqtt" /\ last'.branch = "connected" /\ mgr'.pc = "idle"
    \/ last'.act = "select_ack" /\ last'.branch = "mqtt_restored"

\* C25: when the connection-changed handler returns for a transition to
\* connected, the status is neither 'Off - Warning (MQTT connection lost)' nor
\* 'Running - Warning (MQTT connection lost)', and the select is back at the
\* mode recorded at the loss (when a loss was recorded), whatever happened
\* before.
C25_Original ==
    [][MqttRestoreReturned =>
         /\ manager_status_sensor' \notin {OffMqttLost, RunningMqttLost}
         /\ mgr'.manager_last_state # ""
            => settings'.manager_status_select = mgr'.manager_last_state]_vars

\* ------------------------------------------------------------ C26
\* the calc flag is set while no calc timer is pending and no scheduler
\* callback is running: nothing is left to clear the flag or to plan
CalcStuck ==
    /\ data.night_heating_calc_planned
    /\ \A t \in timers : t.cb # "calc"
    /\ \A j \in 1..MaxSched : sched[j].pc = "idle"

\* C26: with a windowed statistic unavailable (None), boiler_logic sends no
\* command and raises no error, and the calc handler raises no error and
\* leaves a scheduler that can still progress.
C26_Original ==
    /\ last.act = "tick_decide"
       /\ (bl.pv_power_history = None \/ bl.critical_loads_history = None)
       => bl.result = "none" /\ cmd = NoCmd
    /\ last.act = "plan" /\ last.in.yesterday_boiler_temp = None
       => last.branch # "calc_error" /\ ~CalcStuck

\* ------------------------------------------------------------ C27
OffValues ==
    { "Off", "Off - Warning (Grid Lost)", "Off - Warning (Grid Unknown)", OffMqttLost }

\* the grid-lost handler runs in this step and switches the manager Off
GridSwitchesOff ==
    /\ last'.act = "grid" /\ last'.branch # "0"
    /\ mgr.cancel_grid_lost_handler /\ ~mgr.component_loading
    /\ mgr.solar_conf_mode = "manual" \/ data.mqtt_connected

\* a handler that turned the manager Off (the operator's selection, the
\* grid-lost handler or the MQTT timeout) has returned in this step
OffReturned ==
    \/ /\ mgr'.pc = "idle"
       /\ \/ last'.act = "select" /\ last'.branch = "Off"
          \/ GridSwitchesOff
          \/ last'.act = "mqtt_timer"
    \/ /\ last'.act = "select_ack"
       /\ last'.branch \in {"operator", "grid_lost", "grid_unknown", "mqtt_timer"}

\* C27: when a handler that turns the manager Off returns, the four scheduler
\* flags are false, the status is an Off value, the tick is cancelled and no
\* scheduler timer is pending; and no scheduler callback fires while the
\* manager is Off.
C27_Original ==
    [][/\ OffReturned
          => /\ \A f \in FlagNames : ~data'[f]
             /\ manager_status_sensor' \in OffValues
             /\ settings'.manager_status_select = "Off"
             /\ ~mgr'.cancel_manager
             /\ timers' = {}
       /\ last'.act \in {"calc", "start", "end"}
          => settings.manager_status_select # "Off"]_vars

\* ------------------------------------------------------------ C28
\* the sensor the forecast check reads: tomorrow's when the deadline is on
\* the next day, today's otherwise
DeadlineDay == IF DateOf(NextMorning) > DateOf(now) THEN "tomorrow" ELSE "today"

\* the start trigger came to its forecast check in automatic mode
ForecastCheckRan ==
    ReachedForecastCheck /\ settings.manager_status_select = "Automatic"

\* C28: a failed refresh leaves the forecast sensor's value unchanged and
\* changes no flag, no timer and no ManagerStatus; the forecast check of the
\* start trigger then uses the value of the last successful fetch.
C28_FailedRefresh ==
    [][/\ last'.act = "refresh" /\ last'.branch # "none"
          => /\ forecast'.today = forecast.today
             /\ forecast'.tomorrow = forecast.tomorrow
             /\ data' = data /\ timers' = timers
             /\ manager_status_sensor' = manager_status_sensor
       /\ ForecastCheckRan'
          => /\ last'.in.forecast_today = forecast.good.today
             /\ last'.in.forecast_tomorrow = forecast.good.tomorrow
             /\ StartGivenUp'
                 <=> forecast_insufficient(settings,
                         [last'.in EXCEPT !.forecast_today = forecast.good.today,
                                          !.forecast_tomorrow = forecast.good.tomorrow],
                         now')]_vars

\* the start trigger ran its forecast check after the last refresh of both
\* sensors had failed, the fetch before having delivered a forecast too
\* small for the day, and gave the start up
C28_Witness ==
    /\ last.act = "start" /\ ForecastCheckRan
    /\ forecast.failed.today /\ forecast.failed.tomorrow
    /\ forecast.good[DeadlineDay] = 500
    /\ StartGivenUp

\* ------------------------------------------------------------ C29
\* the scheduler is in CalcPlanned, StartPlanned or Cancelled
PlannedOrCancelled ==
    FlagsSet \in { {"night_heating_calc_planned"}, {"night_heating_planned"},
                   {"night_heating_canceled"} }

\* C29: when the feature switch is turned off in CalcPlanned, StartPlanned or
\* Cancelled, every pending scheduler timer is cancelled and the four flags
\* are reset; and no calc, start or end callback fires while the switch is
\* off.
C29_Original ==
    [][/\ last'.act = "turn_off" /\ PlannedOrCancelled
          => timers' = {} /\ \A f \in FlagNames : ~data'[f]
       /\ last'.act \in {"calc", "start", "end"} => night_heating_switch]_vars

\* ------------------------------------------------------------ C30
GridLost == "Off - Warning (Grid Lost)"
GridUnknown == "Off - Warning (Grid Unknown)"

\* the manager is running with its handlers registered; in automatic solar
\* configuration MQTT is connected and its first message has arrived
RunningConnected ==
    /\ settings.manager_status_select # "Off"
    /\ mgr.cancel_manager /\ mgr.cancel_grid_lost_handler /\ mgr.pc = "idle"
    /\ mgr.solar_conf_mode = "automatic"
       => data.mqtt_connected /\ ~mgr.component_loading

\* C30: when the grid-lost sensor changes to '1' while the manager is running
\* (in automatic solar configuration: with MQTT connected), the handler
\* returns with the manager Off and status 'Off - Warning (Grid Lost)'; a
\* value other than '0' and '1' gives Off and 'Off - Warning (Grid
\* Unknown)'; in the automatic and in the manual solar configuration.
C30_Original ==
    [][/\ last'.act = "grid" /\ RunningConnected /\ last'.branch # "0"
          => \/ mgr'.pc = "off_mode"
             \/ /\ settings'.manager_status_select = "Off"
                /\ manager_status_sensor'
                     = IF last'.branch = "1" THEN GridLost ELSE GridUnknown
       /\ last'.act = "select_ack" /\ last'.branch \in {"grid_lost", "grid_unknown"}
          => /\ settings'.manager_status_select = "Off"
             /\ manager_status_sensor'
                  = IF last'.branch = "grid_lost" THEN GridLost
                    ELSE GridUnknown]_vars

\* ------------------------------------------------------------ C31
\* C31: a change of the day-heating target stores the new value; while night
\* pre-heating is active it sends nothing to the actuator, otherwise it sends
\* one set-temperature command with the new value.
C31_SetHeatingTemp ==
    [][last'.act = "set_heating_temp" =>
         /\ settings'.heating_temp # settings.heating_temp
         /\ settings'.heating_temp \in HeatingTemps
         /\ IF data.night_preheating
            THEN cmd' = NoCmd /\ boiler' = boiler
            ELSE /\ cmd' = [op |-> "set_temperature", by |-> "number",
                            temperature |-> settings'.heating_temp]
                 /\ boiler'.temperature = settings'.heating_temp
                 /\ boiler'.mode = boiler.mode]_vars

\* the target was changed while the scheduler was heating to the night
\* target: the thermostat still holds the night target
C31_Witness ==
    /\ last.act = "set_heating_temp" /\ last.branch = "preheating"
    /\ data.night_preheating /\ data.boiler_power_on
    /\ boiler.temperature = settings.night_heating_temp
    /\ settings.heating_temp = 70

\* ------------------------------------------------------------ C32
\* C32: whenever one of the four scheduler flags is true, eventually all four
\* are false again.  A tick changes nothing while a flag is set
\* (night_pre_heating returns at once), so the flags are cleared only by a
\* scheduler callback: the claim requires that, while a flag is set, a
\* scheduler timer is pending or a scheduler callback is running.
C32_Original ==
    FlagsSet # {} => \/ timers # {}
                     \/ \E j \in 1..MaxSched : sched[j].pc # "idle"

\* ------------------------------------------------------------ C33
\* morning deadlines around five hours after midnight: with 05:30 heating a
\* cold tank has to start before midnight while the calc trigger fires after
\* midnight, with 05:05 the calc trigger falls into the minutes before midnight
DawnTimes == {(5 * 60 + 5) * Minute, (5 * 60 + 30) * Minute}
InitDawn ==
    /\ Init!1 /\ Init!2 /\ night_heating_switch = TRUE
    /\ settings \in [ morning_time : DawnTimes, night_heating_temp : {60},
                      heating_temp : {75},
                      manager_status_select : {"Manual", "Automatic"} ]
    /\ Init!5 /\ Init!6 /\ Init!7 /\ Init!8 /\ Init!9 /\ Init!10
    /\ Init!11 /\ Init!12 /\ Init!13 /\ Init!14 /\ Init!15 /\ Init!16
SpecDawn == InitDawn /\ [][NextOn]_vars

\* the calc handler has just scheduled a start timer instead of starting
StartScheduledByCalc == last.act = "plan" /\ last.branch = "start_planned"

\* C33: when the calc handler schedules a start timer, the timer fires before
\* the next occurrence of the morning deadline.
C33_Original ==
    StartScheduledByCalc =>
        \E t \in timers : /\ t.cb = "start" /\ t.id = data.night_heating_event
                          /\ t.at < NextMorning

\* ------------------------------------------------------------ C34
\* the scheduler commands the actuator on in this step
SchedulerTurnsOn == cmd'.by = "sched" /\ cmd'.op \in {"MANUAL", "set_temperature"}

\* C34: while the feature switch stays off, the scheduler issues no
\* actuator-on command and sets no scheduler flag true, also when a calc or
\* start handler was suspended at an await when the switch went off.
C34_Original ==
    [][~night_heating_switch /\ ~night_heating_switch'
          => /\ ~SchedulerTurnsOn
             /\ \A f \in FlagNames : data'[f] => data[f]]_vars

\* ------------------------------------------------------------ C35
\* the pending timers registered through a slot of hass.data
CalcTimers(ts) == {t \in ts : t.cb = "calc"}
HeatingTimers(ts) == {t \in ts : t.cb \in {"start", "end"}}
SlotTimers(slot, ts) ==
    IF slot = "night_heating_calc_event" THEN CalcTimers(ts) ELSE HeatingTimers(ts)
\* the step stores another handle in the slot while the timer of the old one
\* stays pending
Overwritten(slot) ==
    /\ data'[slot] # data[slot]
    /\ \E t \in SlotTimers(slot, timers) \cap timers' : t.id = data[slot]

\* C35: at most one calc timer and at most one start/end timer are pending,
\* and no stored timer handle is overwritten while its timer is pending.
C35_Original ==
    [][/\ Cardinality(CalcTimers(timers')) <= 1
       /\ Cardinality(HeatingTimers(timers')) <= 1
       /\ ~Overwritten("night_heating_calc_event")
       /\ ~Overwritten("night_heating_event")]_vars

\* ------------------------------------------------------------ C36
\* the boiler is commanded on by the hysteresis controller
OnUnderHysteresis == data.boiler_power_on /\ ~data.night_preheating

\* C36: whenever the boiler is commanded on under hysteresis control, the
\* temperature last sent to the thermostat is the current day-heating target.
C36_Original == OnUnderHysteresis => boiler.temperature = settings.heating_temp

\* ------------------------------------------------------------ C37
\* manager.run() is started as a new task every ten seconds, whether or not
\* the task of the tick before has returned: two ticks at a time, the
\* feature switch off
OverlapTicks == 2
InitOverlap ==
    /\ Init!1 /\ Init!2 /\ Init!3 /\ Init!4 /\ Init!5 /\ Init!6 /\ Init!7 /\ Init!8
    /\ ticks = [i \in 1..OverlapTicks |-> IdleTick]
    /\ Init!10 /\ Init!11 /\ Init!12 /\ Init!13 /\ Init!14 /\ Init!15 /\ Init!16
NextOverlap ==
    \/ Advance
    \/ \E i \in 1..OverlapTicks : Tick(i, RunInputs)
    \/ \E i \in 1..OverlapTicks : TickHistory(i, HistoryInputs)
    \/ \E i \in 1..OverlapTicks : TickDecide(i, DecideInputsOn)
    \/ \E i \in 1..OverlapTicks : TickAck(i)
    \/ PhaseDiscovered
SpecOverlap == InitOverlap /\ [][NextOverlap]_vars

\* boiler_logic issues an on command in this step
ControllerTurnsOn ==
    /\ last'.act = "tick_decide" /\ last'.branch = "on"
    /\ cmd'.by = "bl" /\ cmd'.op = "set_temperature"
\* the last command to the actuator was an on command: the mode was set to
\* MANUAL and not back since, or an on command of the controller is under way
CommandedOn ==
    \/ boiler.mode = "MANUAL"
    \/ \E i \in DOMAIN ticks : ticks[i].pc \in {"on_temp", "on_mode"}

\* C37: the hysteresis controller issues no on command while the boiler is
\* already commanded on, so that between two of its on commands there is an
\* off command, also when ticks overlap.
C37_Original == [][ControllerTurnsOn => ~CommandedOn]_vars

\* ------------------------------------------------------------ C38
RunningValues == {"Running", RunningMqttLost}

\* C38: ManagerStatus has a Running value only while the select is not Off
\* and the tick timer is active.
C38_Original ==
    manager_status_sensor \in RunningValues
        => settings.manager_status_select # "Off" /\ mgr.cancel_manager

\* ------------------------------------------------------------ C39
\* the start handler has just rescheduled itself because of excess lead time
Rescheduled == last.act \in {"start", "plan"} /\ last.branch = "rescheduled"
\* the start timers registered in the slot
StartTimers == {t \in timers : t.cb = "start" /\ t.id = data.night_heating_event}
\* what the start handler does when timer t fires and the tank temperature,
\* the target and the deadline are those of the rescheduling run
Refired(t) ==
    start_night_pre_heating(Fired(World, t), FALSE, settings, last.in, t.at + 1)

\* C39: a start trigger rescheduled because of excess lead time does not
\* reschedule again when temperature, target and deadline are unchanged: it
\* goes on to the connection and forecast checks.
C39_RescheduleOnce ==
    Rescheduled =>
        /\ StartTimers # {}
        /\ \A t \in StartTimers :
             /\ Refired(t).branch # "rescheduled"
             /\ Refired(t).branch \in
                  {"heat", "disconnected_end_planned", "forecast_end_planned"}
C39_Witness ==
    /\ Rescheduled /\ last.act = "start"
    /\ \E t \in StartTimers : Refired(t).branch = "heat"

\* ------------------------------------------------------------ C40
\* the tick just taken registered the calc timer t
CalcTimerPlanned(t) ==
    /\ last'.act = "tick"
    /\ t \in timers' \ timers
    /\ t.cb = "calc" /\ t.id = data'.night_heating_calc_event
\* the deadline minus the time to heat the tank from 1 degree to the target,
\* as a time of day
CalcTimeOfDay ==
    TimeOf(Combine(now, settings.morning_time)
           - calculate_boiler_heat(entry_data.boiler_power, entry_data.boiler_volume,
                                   water_min_temp, settings.night_heating_temp)[2])

\* C40: the calc trigger chosen by an Idle tick is strictly later than now and
\* at most 24 hours ahead: today at the calc time of day when that is not in
\* the past, otherwise tomorrow at the same time of day.
C40_Original ==
    [][\A t \in timers' :
         CalcTimerPlanned(t)
           => /\ t.at > now' /\ t.at <= now' + Day
              /\ t.at = IF CalcTimeOfDay > TimeOf(now)
                        THEN Combine(now, CalcTimeOfDay)
                        ELSE Combine(now, CalcTimeOfDay) + Day]_vars

====
